---- MODULE Spec2Model ----
(***************************************************************************)
(* A model of connecto's pairing and sync protocol state machines:         *)
(*   connecto_core/src/protocol.rs  HandshakeServer, handle_client,        *)
(*                                  HandshakeClient::pair                  *)
(*   connecto_core/src/sync.rs      SyncHandler::run, handle_as_initiator, *)
(*                                  handle_as_responder                    *)
(*   connecto_core/src/keys.rs      KeyManager::add_authorized_key,        *)
(*                                  list_authorized_keys                   *)
(* Strings that the code inspects (public keys, the authorized_keys file)  *)
(* are sequences of small numbers standing for characters; strings the     *)
(* code only carries are TLA+ strings.                                     *)
(***************************************************************************)
EXTENDS Integers, Sequences, FiniteSets, TLC

\* ------------------------------------------------------------------ bounds
\* Connections a pairing server is offered in one behaviour.
MaxConns == 2
\* Messages a non-conforming peer sends on one connection: in a session of one
\* connection, and under the accept loop of HandshakeServer::run.
MaxRogueSends == 3
RunRogueSends == 1
\* Environment faults (connection reset, failed accept, failed file write).
MaxFaults == 1
\* Connection attempts of one sync behaviour.
MaxSyncConns == 2
\* Lines of an authorized_keys file before the calls; calls of add_authorized_key.
MaxStoreLines == 2
MaxAdds == 3
\* Candidate addresses of a subnet scan; lines a probed host sends.
MaxHosts == 2
MaxHostSends == 2
\* The prefixes 0..MaxCidrPrefix are given to parse_cidr.
MaxCidrPrefix == 34
\* advertise() and stop() calls made on one advertiser before it is dropped.
MaxAdvCalls == 4
\* Events the mDNS daemon sends to one browse.
MaxMdnsEvents == 3
\* Events the mDNS daemon sends to one find_peers.
MaxPeerEvents == 2
\* Addresses in the list of a device.
MaxAddrs == 3
\* Characters in a string field of a serialized message, and the largest
\* integer field serialized.
MaxWireLen == 2
MaxWireInt == 99999999
\* scan_ips is given up to MaxCandidates addresses, more than its window holds;
\* the probes of the addresses at the positions Watched are followed one by one.
MaxCandidates == 102
Watched == {1, 2, 100, 101, 102}
\* Capacity of the bounded event channel (mpsc::channel(n)).
EventCap == 3

Conns == 1..MaxConns

\* --------------------------------------------------------------- constants
PROTOCOL_VERSION == 1
\* The PROTOCOL_VERSION of a peer built from another release.
OtherVersion == PROTOCOL_VERSION + 1
Versions == {PROTOCOL_VERSION, OtherVersion}

\* ----------------------------------------------------------------- strings
\* Characters: Sp is a blank, NL a line feed, Hash '#'; the others are letters.
Sp == 0
NL == 10
Hash == 9

FirstWs(s) ==
    IF \E i \in 1..Len(s) : s[i] \in {Sp, NL}
    THEN CHOOSE i \in 1..Len(s) : s[i] \in {Sp, NL} /\ \A j \in 1..(i-1) : s[j] \notin {Sp, NL}
    ELSE Len(s) + 1

RECURSIVE split_whitespace(_)
split_whitespace(s) ==
    IF s = <<>> THEN <<>>
    ELSE IF Head(s) \in {Sp, NL} THEN split_whitespace(Tail(s))
    ELSE <<SubSeq(s, 1, FirstWs(s) - 1)>> \o split_whitespace(SubSeq(s, FirstWs(s), Len(s)))

contains(hay, needle) ==
    \E i \in 0..(Len(hay) - Len(needle)) : SubSeq(hay, i + 1, i + Len(needle)) = needle

FirstNL(s) ==
    IF \E i \in 1..Len(s) : s[i] = NL
    THEN CHOOSE i \in 1..Len(s) : s[i] = NL /\ \A j \in 1..(i-1) : s[j] # NL
    ELSE Len(s) + 1

RECURSIVE lines(_)
lines(s) ==
    IF s = <<>> THEN <<>>
    ELSE <<SubSeq(s, 1, FirstNL(s) - 1)>> \o lines(SubSeq(s, FirstNL(s) + 1, Len(s)))

\* ---------------------------------------------------------------- key pairs
\* SshKeyPair: public_key is "<type> <data> <comment>".
KeyA == [public_key |-> <<1, Sp, 2, Sp, 5>>, comment |-> <<5>>]
KeyB == [public_key |-> <<1, Sp, 3, Sp, 6>>, comment |-> <<6>>]
\* A key of some third party already authorized before the session.
KeyOld == [public_key |-> <<1, Sp, 4, Sp, 7>>, comment |-> <<7>>]

\* authorized_keys files a session may start from: none, and one holding a
\* comment line and a third party's key.
InitialFiles == { <<>>, <<Hash, 8, NL>> \o KeyOld.public_key \o <<NL>> }

\* ------------------------------------------------------- authorized_keys
\* add_authorized_key's existence check: the file already holds the key data.
key_already_authorized(file, public_key) ==
    LET new_key_parts == split_whitespace(public_key)
    IN  Len(new_key_parts) >= 2 /\ contains(file, new_key_parts[2])

\* A variant of the append that writes the key data without type and comment.
append_key_data_only(file, public_key) ==
    file \o split_whitespace(public_key)[2] \o <<NL>>

\* add_authorized_key's append: writeln!(file, "{}", public_key).
append_key(file, public_key) == file \o public_key \o <<NL>>

add_authorized_key(file, public_key) ==
    IF key_already_authorized(file, public_key) THEN file ELSE append_key(file, public_key)

list_authorized_keys(file) ==
    SelectSeq(lines(file),
              LAMBDA l : split_whitespace(l) # <<>> /\ Head(l) # Hash)

\* ---------------------------------------------------------------- messages
Hello(v, name) == [type |-> "Hello", version |-> v, device_name |-> name]
HelloAck(v, name, code) ==
    [type |-> "HelloAck", version |-> v, device_name |-> name, verification_code |-> code]
KeyExchange(kp) == [type |-> "KeyExchange", public_key |-> kp.public_key, comment |-> kp.comment]
KeyAccepted == [type |-> "KeyAccepted", message |-> "Key added to authorized_keys"]
ErrorMsg(code, message) == [type |-> "Error", code |-> code, message |-> message]
\* format!("Protocol version mismatch: expected {}, got {}", PROTOCOL_VERSION, version)
MismatchText(expected, got) ==
    CASE expected = PROTOCOL_VERSION /\ got = OtherVersion ->
             "Protocol version mismatch: expected 1, got 2"
      [] expected = OtherVersion /\ got = PROTOCOL_VERSION ->
             "Protocol version mismatch: expected 2, got 1"
      [] OTHER -> "Protocol version mismatch: expected ?, got ?"
\* format!("Peer reported failure: {}", message)
PeerFailureText(message) ==
    IF message = "Key exchange successful"
    THEN "Peer reported failure: Key exchange successful"
    ELSE "Peer reported failure: ?"
PairingComplete(user) == [type |-> "PairingComplete", ssh_user |-> user]
\* A line from_json rejects (malformed JSON or an unknown tag).
Malformed == [type |-> "Malformed"]

\* Results of the operations.
Pending == [st |-> "pending"]
Err(kind, message) == [st |-> "err", err |-> kind, message |-> message]
OkUnit == [st |-> "ok"]
PairingResult(server_name, ssh_user, code) ==
    [st |-> "ok", server_name |-> server_name, ssh_user |-> ssh_user, verification_code |-> code]

\* Sync messages (built in sync.rs).
SyncHello(v, name, prio, kp, user) ==
    [type |-> "SyncHello", version |-> v, device_name |-> name, initiator_priority |-> prio,
     public_key |-> kp.public_key, key_comment |-> kp.comment, ssh_user |-> user]
SyncHelloAck(v, name, kp, user, accept) ==
    [type |-> "SyncHelloAck", version |-> v, device_name |-> name,
     public_key |-> kp.public_key, key_comment |-> kp.comment, ssh_user |-> user,
     accept_sync |-> accept]
SyncComplete(success) ==
    [type |-> "SyncComplete", success |-> success, message |-> "Key exchange successful"]
\* The key fields of the refusing SyncHelloAck: String::new().
NoKey == [public_key |-> <<>>, comment |-> <<>>]

SyncResult(peer_name, peer_user, peer) ==
    [st |-> "ok", peer_name |-> peer_name, peer_user |-> peer_user, peer_address |-> peer]

\* The two devices of a sync, their key pairs and OS users.
Devs == {1, 2}
Other(d) == 3 - d
DevKey(d) == IF d = 1 THEN KeyA ELSE KeyB
DevUser(d) == IF d = 1 THEN "alice" ELSE "bob"

\* Option<String>: None, or Some of a string; a string of decimal digits is the
\* sequence of its digits.
None == <<>>
Some(x) == <<x>>

\* Values rng.gen_range(0..10000) may draw.
CodeDraws == {42, 9731}

RECURSIVE Digits(_)
Digits(n) == IF n < 10 THEN <<n>> ELSE Digits(n \div 10) \o <<n % 10>>

\* format!("{:04}", n): the decimal digits of n, padded with zeros to 4.
generate_verification_code(n) ==
    [i \in 1..(4 - Len(Digits(n))) |-> 0] \o Digits(n)

\* The code sent whether or not verification is required.
verification_code_always(require_verification) ==
    { Some(generate_verification_code(n)) : n \in CodeDraws }

\* if require_verification { Some(generate_verification_code()) } else { None }
verification_code(require_verification) ==
    IF require_verification
    THEN { Some(generate_verification_code(n)) : n \in CodeDraws }
    ELSE {None}

ServerName == "Test Server"
ServerUser == "srvuser"
ClientName(c) == IF c = 1 THEN "Client 1" ELSE "Client 2"

\* ------------------------------------------------------------------- state
VARIABLES
    cfg,              \* the configuration of the run (fixed by Init)
    listener,         \* HandshakeServer.listener: "none", "bound", "closed"
    spc, scur, sres,  \* run / handle_one: position, connection in hand, result
    backlog,          \* connections established and not yet accepted
    evlog,            \* ServerEvents sent on event_tx, in order
    hpc, hres, hst,   \* handle_client per connection: position, result, locals
    authorized_keys,  \* the server's authorized_keys file
    cpc, cres, cst,   \* HandshakeClient::pair per connection
    c2s, s2c,         \* lines in flight, connecting side -> accepting side and back
    cOpen, sOpen,     \* whether each side still holds its end of the stream
    broken,           \* the connection was reset
    srecv, crecv,     \* lines each side has read so far
    rogueSent,        \* messages a non-conforming peer has sent
    faults,           \* environment faults so far
    \* --- sync (SyncHandler), per device
    ypc, yres, yst,   \* run / handle_as_*: position, result, locals
    ykeys,            \* the device's authorized_keys file
    ynet,             \* listener, backlog, advertisement, browser, timer, found peers
    \* --- sync connections
    yconn,            \* who connected to whom
    ychan,            \* lines in flight, open ends, reset, lines read, rogue sends
    attempts,         \* connection attempts so far
    \* --- KeyManager called directly
    ks,               \* the authorized_keys file, the key added and the results
    \* --- SubnetScanner::scan_ips
    sc,               \* per candidate address: the probe, the host and the result
    \* --- the scan command (connecto_cli)
    cl,               \* position, tiers tried so far, devices, result
    \* --- SubnetScanner::parse_cidr
    cd,               \* the input, the build, the result
    \* --- ServiceAdvertiser / SyncAdvertiser
    ad,               \* the advertiser, its daemon and the calls made on it
    \* --- ServiceBrowser
    br,               \* the daemon's events, the browse thread, the map, the scan
    \* --- SyncBrowser::find_peers
    fp,               \* the local name, the daemon's events, what the thread did with them
    \* --- functions called directly
    pf                \* the function, its argument, its result

vars == <<cfg, listener, spc, scur, sres, backlog, evlog, hpc, hres, hst,
          authorized_keys, cpc, cres, cst, c2s, s2c, cOpen, sOpen, broken,
          srecv, crecv, rogueSent, faults, ypc, yres, yst, ykeys, ynet, yconn, ychan,
          attempts, ks, sc, cl, cd, ad, br, fp, pf>>

syncVars == <<ypc, yres, yst, ykeys, ynet, yconn, ychan, attempts>>
pairVars == <<listener, spc, scur, sres, backlog, evlog, hpc, hres, hst, authorized_keys,
              cpc, cres, cst, c2s, s2c, cOpen, sOpen, broken, srecv, crecv, rogueSent>>

srvVars == <<listener, spc, scur, sres>>
hVars == <<hpc, hres, hst>>
cVars == <<cpc, cres, cst>>
chanVars == <<c2s, s2c, cOpen, sOpen, broken>>
\* The state outside the pairing and sync sessions, and the state of those.
auxVars == <<ks, sc, cl, cd, ad, br, fp, pf>>
\* All of it but one part.
notKs == <<sc, cl, cd, ad, br, fp, pf>>
notSc == <<ks, cl, cd, ad, br, fp, pf>>
notCl == <<ks, sc, cd, ad, br, fp, pf>>
notCd == <<ks, sc, cl, ad, br, fp, pf>>
notAd == <<ks, sc, cl, cd, br, fp, pf>>
notBr == <<ks, sc, cl, cd, ad, fp, pf>>
notFp == <<ks, sc, cl, cd, ad, br, pf>>
notPf == <<ks, sc, cl, cd, ad, br, fp>>
coreVars == <<cfg, pairVars, syncVars, faults>>

NoLocals == [client_name |-> "", kx |-> Malformed, code |-> None, pend |-> Pending]
NoClientLocals == [server_name |-> "", code |-> None]

\* One pairing session against handle_one, both ends the code of this
\* repository, possibly built with different protocol versions.
SingleCfgs ==
    { [scen |-> "pair", srvKind |-> "impl", srvMode |-> "handle_one",
       require_verification |-> rv, consumer |-> co, sver |-> v[1], cver |-> v[2],
       cliKind |-> [c \in Conns |-> IF c = 1 THEN "impl" ELSE "off"],
       ckey |-> [c \in Conns |-> KeyA], rogueMax |-> 0] :
        rv \in BOOLEAN, co \in {"drain", "stalled"},
        v \in {<<PROTOCOL_VERSION, PROTOCOL_VERSION>>, <<PROTOCOL_VERSION, OtherVersion>>,
               <<OtherVersion, PROTOCOL_VERSION>>} }

\* One pairing session in which one end is a non-conforming peer.
RogueCfgs ==
    { [scen |-> "pair", srvKind |-> k[1], srvMode |-> "handle_one",
       require_verification |-> rv, consumer |-> "drain",
       sver |-> PROTOCOL_VERSION, cver |-> PROTOCOL_VERSION,
       cliKind |-> [c \in Conns |-> IF c = 1 THEN k[2] ELSE "off"],
       ckey |-> [c \in Conns |-> KeyA], rogueMax |-> MaxRogueSends] :
        rv \in BOOLEAN, k \in {<<"impl", "rogue">>, <<"rogue", "impl">>} }

\* The accept loop of HandshakeServer::run offered MaxConns connections: a
\* non-conforming peer beside a client, or clients with equal or different keys.
RunCfgs ==
    { [scen |-> "pair", srvKind |-> "impl", srvMode |-> "run",
       require_verification |-> FALSE, consumer |-> co,
       sver |-> PROTOCOL_VERSION, cver |-> PROTOCOL_VERSION,
       cliKind |-> [c \in Conns |-> IF c = 1 THEN k[1] ELSE "impl"],
       ckey |-> [c \in Conns |-> IF c = 1 THEN KeyA ELSE k[2]],
       rogueMax |-> RunRogueSends] :
        co \in {"drain", "stalled"},
        k \in {<<"rogue", KeyA>>, <<"impl", KeyA>>, <<"impl", KeyB>>} }

\* A SubnetScanner probe of the server (connection 1) beside a client's pair
\* (connection 2), under handle_one and under run.
ProbeCfgs ==
    { [scen |-> "pair", srvKind |-> "impl", srvMode |-> mode,
       require_verification |-> FALSE, consumer |-> "drain",
       sver |-> PROTOCOL_VERSION, cver |-> PROTOCOL_VERSION,
       cliKind |-> [c \in Conns |-> IF c = 1 THEN "probe" ELSE "impl"],
       ckey |-> [c \in Conns |-> KeyA], rogueMax |-> 0] :
        mode \in {"handle_one", "run"} }

\* The sync part of a configuration in which no sync runs.
SyncOff == [driver |-> [d \in Devs |-> "off"], yver |-> [d \in Devs |-> PROTOCOL_VERSION],
            yname |-> [d \in Devs |-> ""], yprio |-> [d \in Devs |-> 0]]

SyncConns == 1..MaxSyncConns

NoSyncLocals ==
    [conn |-> 0, peer |-> 0, role |-> "", peer_name |-> "", peer_user |-> "",
     peer_key |-> <<>>, pend |-> Pending, last |-> Pending, failed |-> 0]
NetOff == [listener |-> "none", backlog |-> <<>>, adv |-> "none", unregs |-> 0,
           browser |-> "off", timer |-> "off", found |-> <<>>]
ChanOff == [i2r |-> <<>>, r2i |-> <<>>, iOpen |-> FALSE, rOpen |-> FALSE, broken |-> FALSE,
            irecv |-> <<>>, rrecv |-> <<>>, isent |-> 0, rsent |-> 0]
NoConn == [from |-> 0, to |-> 0]

PfOff == [fn |-> "", of |-> "", arg |-> <<>>, res |-> Pending]

FpOff == [pc |-> "Off", our_name |-> <<>>, our_host |-> <<>>, daemon |-> <<>>, dopen |-> FALSE,
          emitted |-> 0, rx_open |-> FALSE, peers |-> <<>>, handled |-> <<>>]

BrOff == [pc |-> "Off", daemon |-> <<>>, dopen |-> FALSE, emitted |-> 0, thread |-> "none",
          devices |-> <<>>, rx |-> <<>>, timer |-> "off", event |-> "none",
          handled |-> <<>>, ret |-> Pending]

AdOff == [kind |-> "", state |-> "none", service_fullname |-> "", daemon |-> "down",
          registered |-> {}, log |-> <<>>]

CdOff == [input |-> <<>>, ip |-> <<>>, prefix |-> -1, build |-> "", res |-> Pending]

ClOff == [pc |-> "Off", macos |-> FALSE, all_subnets |-> <<>>, tiers |-> <<>>,
          mdns |-> "", devices |-> <<>>, res |-> Pending]

ScOff == [ips |-> {}, pc |-> <<>>, host |-> <<>>, res |-> <<>>, ret |-> Pending]

KsOff == [file0 |-> <<>>, file |-> <<>>, key |-> <<>>, res |-> <<>>]

\* Nothing outside the sessions is in use.
AuxIdle ==
    /\ ks = KsOff
    /\ sc = ScOff
    /\ cl = ClOff
    /\ cd = CdOff
    /\ ad = AdOff
    /\ br = BrOff /\ fp = FpOff /\ pf = PfOff

PairIdle ==
    /\ listener = "none"
    /\ spc = "New" /\ scur = 0 /\ sres = Pending
    /\ backlog = <<>>
    /\ evlog = <<>>
    /\ hpc = [c \in Conns |-> "None"]
    /\ hres = [c \in Conns |-> Pending]
    /\ hst = [c \in Conns |-> NoLocals]
    /\ cpc = [c \in Conns |-> "Idle"]
    /\ cres = [c \in Conns |-> Pending]
    /\ cst = [c \in Conns |-> NoClientLocals]
    /\ c2s = [c \in Conns |-> <<>>]
    /\ s2c = [c \in Conns |-> <<>>]
    /\ cOpen = [c \in Conns |-> FALSE]
    /\ sOpen = [c \in Conns |-> FALSE]
    /\ broken = [c \in Conns |-> FALSE]
    /\ srecv = [c \in Conns |-> <<>>]
    /\ crecv = [c \in Conns |-> <<>>]
    /\ rogueSent = [c \in Conns |-> 0]
    /\ faults = 0

\* Where a device starts: a handler called directly (as the tests do) or run.
StartPc(driver) ==
    CASE driver = "initiator" -> "I_Connect"
      [] driver = "responder" -> "Accept"
      [] driver = "run" -> "Start"
      [] driver = "rogue" -> "Rogue"
      [] OTHER -> "Off"

SyncIdle ==
    /\ ypc = [d \in Devs |-> StartPc(cfg.driver[d])]
    /\ yres = [d \in Devs |-> Pending]
    /\ yst = [d \in Devs |-> [NoSyncLocals EXCEPT !.peer =
                                 IF cfg.driver[d] = "initiator" THEN Other(d) ELSE 0]]
    /\ ykeys = [d \in Devs |-> cfg.file0[d]]
    /\ ynet = [d \in Devs |-> [NetOff EXCEPT !.listener =
                                 IF cfg.driver[d] \in {"responder", "rogue"}
                                 THEN "bound" ELSE "none"]]
    /\ yconn = [k \in SyncConns |-> NoConn]
    /\ ychan = [k \in SyncConns |-> ChanOff]
    /\ attempts = 0

PairInit ==
    /\ \E g \in SingleCfgs \cup RogueCfgs \cup RunCfgs \cup ProbeCfgs :
         \E f \in (IF g \in SingleCfgs THEN InitialFiles ELSE {<<>>}) :
            /\ cfg = g @@ SyncOff @@ [file0 |-> [d \in Devs |-> f]]
            /\ authorized_keys = f
    /\ PairIdle
    /\ SyncIdle
    /\ AuxIdle

\* The pairing part of a configuration in which no pairing runs.
PairOff ==
    [srvKind |-> "off", srvMode |-> "off", require_verification |-> FALSE,
     consumer |-> "drain", sver |-> PROTOCOL_VERSION, cver |-> PROTOCOL_VERSION,
     cliKind |-> [c \in Conns |-> "off"], ckey |-> [c \in Conns |-> KeyA], rogueMax |-> 0]

NameA == "Device A"
NameB == "Device B"
\* initiator_priority is a random u64; two values suffice to be equal or not.
Prios == {7, 8}

\* One sync session, handle_as_initiator (device 1) against
\* handle_as_responder (device 2): equal or different names, priorities and
\* protocol versions.
SyncSessionCfgs ==
    { [scen |-> "sync", driver |-> [d \in Devs |-> IF d = 1 THEN "initiator" ELSE "responder"],
       yver |-> [d \in Devs |-> v[d]],
       yname |-> [d \in Devs |-> IF d = 1 THEN NameA ELSE n2],
       yprio |-> [d \in Devs |-> IF d = 1 THEN 7 ELSE p2], rogueMax |-> 0] :
        n2 \in {NameA, NameB}, p2 \in Prios,
        v \in {<<PROTOCOL_VERSION, PROTOCOL_VERSION>>, <<PROTOCOL_VERSION, OtherVersion>>,
               <<OtherVersion, PROTOCOL_VERSION>>} }

\* One sync session in which one end is a non-conforming peer, and run
\* beside a non-conforming peer or beside another run.
SyncOtherCfgs ==
    { [scen |-> "sync", driver |-> [d \in Devs |-> k[d]],
       yver |-> [d \in Devs |-> PROTOCOL_VERSION],
       yname |-> [d \in Devs |-> IF d = 1 THEN NameA ELSE NameB],
       yprio |-> [d \in Devs |-> IF d = 1 THEN 7 ELSE 8],
       rogueMax |-> IF "run" \in {k[1], k[2]} THEN RunRogueSends ELSE MaxRogueSends] :
        k \in {<<"rogue", "responder">>, <<"initiator", "rogue">>, <<"run", "rogue">>,
               <<"run", "run">>} }

SyncInit ==
    /\ \E g \in SyncSessionCfgs \cup SyncOtherCfgs :
         \E f \in (IF g \in SyncSessionCfgs THEN InitialFiles ELSE {<<>>}) :
            cfg = g @@ PairOff @@ [file0 |-> [d \in Devs |-> f]]
    /\ authorized_keys = <<>>
    /\ PairIdle
    /\ SyncIdle
    /\ AuxIdle

\* --------------------------------------------------------------- transport
\* read_line().await on a stream: it returns once a line is buffered, the peer
\* has closed (end of file) or the connection is reset.
CanRead(ch, peerOpen, brk) == brk \/ ch # <<>> \/ ~peerOpen

\* What the read and the from_json after it yield: "io" (read_line failed),
\* "eof" (an empty line, which from_json rejects), or the line.
ReadKind(ch, brk) == IF brk THEN "io" ELSE IF ch = <<>> THEN "eof" ELSE "line"

\* The error `?` makes of a failed read or parse.
ReadErr(kind) == IF kind = "io" THEN Err("Io", "read") ELSE Err("Serialization", "parse")

\* write_all().await: fails on a reset connection; towards a peer that has
\* closed it either is buffered and lost or fails.
WriteOutcomes(peerOpen, brk) ==
    IF brk THEN {"io"} ELSE IF peerOpen THEN {"ok"} ELSE {"ok", "io"}

Sent(ch, peerOpen, m) == IF peerOpen THEN Append(ch, m) ELSE ch

\* event_tx.send().await: returns at once while the channel has room or the
\* receiver keeps draining it, and waits otherwise.
CanSendEvent == cfg.consumer = "drain" \/ Len(evlog) < EventCap

\* The connection is reset (a transport failure).
ConnReset(c) ==
    /\ faults < MaxFaults
    /\ (cOpen[c] \/ sOpen[c]) /\ ~broken[c]
    /\ broken' = [broken EXCEPT ![c] = TRUE]
    /\ faults' = faults + 1
    /\ UNCHANGED <<cfg, auxVars, syncVars, srvVars, backlog, evlog, hVars, authorized_keys, cVars,
                   c2s, s2c, cOpen, sOpen, srecv, crecv, rogueSent>>

\* ------------------------------------------------- HandshakeServer (main)
\* Dropping the listener resets the connections still waiting in its backlog.
InBacklog(c) == \E i \in 1..Len(backlog) : backlog[i] = c

\* HandshakeServer::listen
Listen ==
    /\ cfg.srvKind # "off"
    /\ spc = "New" /\ listener = "none"
    /\ \/ /\ listener' = "bound" /\ spc' = "Listening"
          /\ UNCHANGED <<sres, faults>>
       \/ /\ faults < MaxFaults
          /\ faults' = faults + 1
          /\ spc' = "Returned" /\ sres' = Err("Network", "Failed to bind")
          /\ UNCHANGED listener
    /\ UNCHANGED <<cfg, auxVars, syncVars, scur, backlog, evlog, hVars, authorized_keys, cVars, chanVars,
                   srecv, crecv, rogueSent>>

\* run / handle_one: self.listener.take()
Serve ==
    /\ cfg.srvKind = "impl"
    /\ spc \in {"New", "Listening"}
    /\ IF listener = "bound"
       THEN spc' = "EvStarted" /\ UNCHANGED sres
       ELSE spc' = "Returned" /\ sres' = Err("Network", "Server not started")
    /\ UNCHANGED <<cfg, auxVars, syncVars, listener, scur, backlog, evlog, hVars, authorized_keys, cVars,
                   chanVars, srecv, crecv, rogueSent, faults>>

\* event_tx.send(ServerEvent::Started)
EvStarted ==
    /\ spc = "EvStarted" /\ CanSendEvent
    /\ evlog' = Append(evlog, "Started")
    /\ spc' = "Accept"
    /\ UNCHANGED <<cfg, auxVars, syncVars, listener, scur, sres, backlog, hVars, authorized_keys, cVars,
                   chanVars, srecv, crecv, rogueSent, faults>>

\* listener.accept() returns a connection
Accept ==
    /\ spc = "Accept" /\ backlog # <<>>
    /\ scur' = Head(backlog) /\ backlog' = Tail(backlog)
    /\ spc' = "EvClientConnected"
    /\ UNCHANGED <<cfg, auxVars, syncVars, listener, sres, evlog, hVars, authorized_keys, cVars, chanVars,
                   srecv, crecv, rogueSent, faults>>

\* listener.accept() fails: run logs it and loops, handle_one returns the error
\* (and drops the listener).
AcceptFail ==
    /\ spc = "Accept" /\ faults < MaxFaults
    /\ faults' = faults + 1
    /\ IF cfg.srvMode = "run"
       THEN UNCHANGED <<listener, spc, sres, backlog, broken>>
       ELSE /\ spc' = "Returned" /\ sres' = Err("Io", "accept")
            /\ listener' = "closed" /\ backlog' = <<>>
            /\ broken' = [c \in Conns |-> broken[c] \/ InBacklog(c)]
    /\ UNCHANGED <<cfg, auxVars, syncVars, scur, evlog, hVars, authorized_keys, cVars, c2s, s2c, cOpen, sOpen,
                   srecv, crecv, rogueSent>>

\* A variant of the accept loop that handles the connection in place.
EvClientConnectedInline ==
    /\ spc = "EvClientConnected" /\ CanSendEvent
    /\ evlog' = Append(evlog, "ClientConnected")
    /\ hpc' = [hpc EXCEPT ![scur] = "ReadHello"]
    /\ spc' = "Handle" /\ UNCHANGED scur
    /\ UNCHANGED <<cfg, auxVars, syncVars, listener, sres, backlog, hres, hst, authorized_keys, cVars,
                   chanVars, srecv, crecv, rogueSent, faults>>

\* event_tx.send(ServerEvent::ClientConnected), then run spawns handle_client as
\* a task of its own and loops, handle_one calls it in place.
EvClientConnected ==
    /\ spc = "EvClientConnected" /\ CanSendEvent
    /\ evlog' = Append(evlog, "ClientConnected")
    /\ hpc' = [hpc EXCEPT ![scur] = "ReadHello"]
    /\ IF cfg.srvMode = "run"
       THEN spc' = "Accept" /\ scur' = 0
       ELSE spc' = "Handle" /\ UNCHANGED scur
    /\ UNCHANGED <<cfg, auxVars, syncVars, listener, sres, backlog, hres, hst, authorized_keys, cVars,
                   chanVars, srecv, crecv, rogueSent, faults>>

\* handle_one returns what handle_client returned; its listener is dropped.
HandleOneReturn ==
    /\ spc = "Handle" /\ hpc[scur] = "Done"
    /\ spc' = "Returned" /\ sres' = hres[scur]
    /\ listener' = "closed" /\ backlog' = <<>>
    /\ broken' = [c \in Conns |-> broken[c] \/ InBacklog(c)]
    /\ UNCHANGED <<cfg, auxVars, syncVars, scur, evlog, hVars, authorized_keys, cVars, c2s, s2c, cOpen, sOpen,
                   srecv, crecv, rogueSent, faults>>

\* ----------------------------------------------------------- handle_client
\* handle_client returns r: its halves of the stream are dropped.
HFinish(c, r) ==
    /\ hpc' = [hpc EXCEPT ![c] = "Done"]
    /\ hres' = [hres EXCEPT ![c] = r]
    /\ sOpen' = [sOpen EXCEPT ![c] = FALSE]

\* A variant of handle_client's first match that does not compare versions.
OnHelloAnyVersion(m, version) ==
    IF m.type = "Hello"
    THEN [next |-> "EvPairingRequest", name |-> m.device_name, pend |-> Pending]
    ELSE [next |-> "WriteError", name |-> "",
          pend |-> [msg |-> ErrorMsg(2, "Expected Hello message"),
                    res |-> Err("Handshake", "Expected Hello")]]

\* What handle_client does with the line it read where it expects Hello:
\* [next |-> position, pend |-> error to send and return, name |-> client_name].
OnHello(m, version) ==
    IF m.type = "Hello"
    THEN IF m.version # version
         THEN [next |-> "WriteError", name |-> "",
               pend |-> [msg |-> ErrorMsg(1, MismatchText(version, m.version)),
                         res |-> Err("Handshake", "Protocol version mismatch")]]
         ELSE [next |-> "EvPairingRequest", name |-> m.device_name, pend |-> Pending]
    ELSE [next |-> "WriteError", name |-> "",
          pend |-> [msg |-> ErrorMsg(2, "Expected Hello message"),
                    res |-> Err("Handshake", "Expected Hello")]]

\* reader.read_line(); Message::from_json(); match hello
HC_ReadHello(c) ==
    /\ hpc[c] = "ReadHello" /\ CanRead(c2s[c], cOpen[c], broken[c])
    /\ LET kind == ReadKind(c2s[c], broken[c]) IN
       IF kind # "line"
       THEN HFinish(c, ReadErr(kind)) /\ UNCHANGED <<hst, c2s, srecv>>
       ELSE LET m == Head(c2s[c]) IN
            /\ c2s' = [c2s EXCEPT ![c] = Tail(@)]
            /\ srecv' = [srecv EXCEPT ![c] = Append(@, m)]
            /\ IF m.type \in {"Malformed", "Empty"}
               THEN HFinish(c, ReadErr("parse")) /\ UNCHANGED hst
               ELSE LET o == OnHello(m, cfg.sver) IN
                    /\ hpc' = [hpc EXCEPT ![c] = o.next]
                    /\ hst' = [hst EXCEPT ![c].client_name = o.name, ![c].pend = o.pend]
                    /\ UNCHANGED <<hres, sOpen>>
    /\ UNCHANGED <<cfg, auxVars, syncVars, srvVars, backlog, evlog, authorized_keys, cVars, s2c, cOpen, broken,
                   crecv, rogueSent, faults>>

\* writer.write_all(error_msg); return Err(..)
HC_WriteError(c) ==
    /\ hpc[c] = "WriteError"
    /\ \E w \in WriteOutcomes(cOpen[c], broken[c]) :
         IF w = "ok"
         THEN /\ s2c' = [s2c EXCEPT ![c] = Sent(@, cOpen[c], hst[c].pend.msg)]
              /\ HFinish(c, hst[c].pend.res)
         ELSE HFinish(c, Err("Io", "write")) /\ UNCHANGED s2c
    /\ UNCHANGED <<cfg, auxVars, syncVars, srvVars, backlog, evlog, hst, authorized_keys, cVars, c2s, cOpen,
                   broken, srecv, crecv, rogueSent, faults>>

\* A step of handle_client that sends one ServerEvent and goes on.
HC_Event(c, at, ev, next) ==
    /\ hpc[c] = at /\ CanSendEvent
    /\ evlog' = Append(evlog, ev)
    /\ hpc' = [hpc EXCEPT ![c] = next]
    /\ UNCHANGED <<cfg, auxVars, syncVars, srvVars, backlog, hres, hst, authorized_keys, cVars, chanVars,
                   srecv, crecv, rogueSent, faults>>

\* A step of handle_client that writes one message and goes on.
HC_Write(c, at, m, next) ==
    /\ hpc[c] = at
    /\ \E w \in WriteOutcomes(cOpen[c], broken[c]) :
         IF w = "ok"
         THEN /\ s2c' = [s2c EXCEPT ![c] = Sent(@, cOpen[c], m)]
              /\ hpc' = [hpc EXCEPT ![c] = next]
              /\ UNCHANGED <<hres, sOpen>>
         ELSE HFinish(c, Err("Io", "write")) /\ UNCHANGED s2c
    /\ UNCHANGED <<cfg, auxVars, syncVars, srvVars, backlog, evlog, authorized_keys, cVars, c2s, cOpen,
                   broken, srecv, crecv, rogueSent, faults>>

\* A variant that reports the Hello it read as another connection.
HC_EvPairingRequestAsConnected(c) ==
    HC_Event(c, "EvPairingRequest", "ClientConnected", "WriteHelloAck")

HC_EvPairingRequest(c) == HC_Event(c, "EvPairingRequest", "PairingRequest", "WriteHelloAck")

\* generate_verification_code() when required; send HelloAck
HC_WriteHelloAck(c) ==
    \E code \in verification_code(cfg.require_verification) :
        /\ HC_Write(c, "WriteHelloAck", HelloAck(cfg.sver, ServerName, code), "ReadKeyExchange")
        /\ hst' = [hst EXCEPT ![c].code = code]

\* A variant of handle_client's second match that skips a line of another
\* variant and reads on.
OnKeyExchangeSkipping(m) ==
    IF m.type = "KeyExchange"
    THEN [next |-> "EvKeyReceived", pend |-> Pending]
    ELSE [next |-> "ReadKeyExchange", pend |-> Pending]

\* What handle_client does with the line it read where it expects KeyExchange.
OnKeyExchange(m) ==
    IF m.type = "KeyExchange"
    THEN [next |-> "EvKeyReceived", pend |-> Pending]
    ELSE [next |-> "WriteError",
          pend |-> [msg |-> ErrorMsg(3, "Expected KeyExchange message"),
                    res |-> Err("Handshake", "Expected KeyExchange")]]

HC_ReadKeyExchange(c) ==
    /\ hpc[c] = "ReadKeyExchange" /\ CanRead(c2s[c], cOpen[c], broken[c])
    /\ LET kind == ReadKind(c2s[c], broken[c]) IN
       IF kind # "line"
       THEN HFinish(c, ReadErr(kind)) /\ UNCHANGED <<hst, c2s, srecv>>
       ELSE LET m == Head(c2s[c]) IN
            /\ c2s' = [c2s EXCEPT ![c] = Tail(@)]
            /\ srecv' = [srecv EXCEPT ![c] = Append(@, m)]
            /\ IF m.type \in {"Malformed", "Empty"}
               THEN HFinish(c, ReadErr("parse")) /\ UNCHANGED hst
               ELSE LET o == OnKeyExchange(m) IN
                    /\ hpc' = [hpc EXCEPT ![c] = o.next]
                    /\ hst' = [hst EXCEPT ![c].kx = m, ![c].pend = o.pend]
                    /\ UNCHANGED <<hres, sOpen>>
    /\ UNCHANGED <<cfg, auxVars, syncVars, srvVars, backlog, evlog, authorized_keys, cVars, s2c, cOpen, broken,
                   crecv, rogueSent, faults>>

HC_EvKeyReceived(c) == HC_Event(c, "EvKeyReceived", "KeyReceived", "AddKeyCheck")

\* key_manager.add_authorized_key, first half: ensure_ssh_dir and the check
\* whether the file already holds the key.
HC_AddKeyCheck(c) ==
    /\ hpc[c] = "AddKeyCheck"
    /\ \/ /\ hpc' = [hpc EXCEPT ![c] =
                       IF key_already_authorized(authorized_keys, hst[c].kx.public_key)
                       THEN "WriteKeyAccepted" ELSE "AddKeyAppend"]
          /\ UNCHANGED <<hres, sOpen, faults>>
       \/ /\ faults < MaxFaults
          /\ faults' = faults + 1
          /\ HFinish(c, Err("Io", "authorized_keys"))
    /\ UNCHANGED <<cfg, auxVars, syncVars, srvVars, backlog, evlog, hst, authorized_keys, cVars, c2s, s2c,
                   cOpen, broken, srecv, crecv, rogueSent>>

\* key_manager.add_authorized_key, second half: the append.
HC_AddKeyAppend(c) ==
    /\ hpc[c] = "AddKeyAppend"
    /\ \/ /\ authorized_keys' = append_key(authorized_keys, hst[c].kx.public_key)
          /\ hpc' = [hpc EXCEPT ![c] = "WriteKeyAccepted"]
          /\ UNCHANGED <<hres, sOpen, faults>>
       \/ /\ faults < MaxFaults
          /\ faults' = faults + 1
          /\ HFinish(c, Err("Io", "authorized_keys"))
          /\ UNCHANGED authorized_keys
    /\ UNCHANGED <<cfg, auxVars, syncVars, srvVars, backlog, evlog, hst, cVars, c2s, s2c, cOpen, broken,
                   srecv, crecv, rogueSent>>

HC_WriteKeyAccepted(c) ==
    HC_Write(c, "WriteKeyAccepted", KeyAccepted, "WritePairingComplete") /\ UNCHANGED hst

HC_WritePairingComplete(c) ==
    HC_Write(c, "WritePairingComplete", PairingComplete(ServerUser), "EvPairingComplete")
    /\ UNCHANGED hst

\* event_tx.send(ServerEvent::PairingComplete); Ok(())
HC_EvPairingComplete(c) ==
    /\ hpc[c] = "EvPairingComplete" /\ CanSendEvent
    /\ evlog' = Append(evlog, "PairingComplete")
    /\ HFinish(c, OkUnit)
    /\ UNCHANGED <<cfg, auxVars, syncVars, srvVars, backlog, hst, authorized_keys, cVars, c2s, s2c, cOpen,
                   broken, srecv, crecv, rogueSent, faults>>

handle_client(c) ==
    \/ HC_ReadHello(c) \/ HC_WriteError(c) \/ HC_EvPairingRequest(c) \/ HC_WriteHelloAck(c)
    \/ HC_ReadKeyExchange(c) \/ HC_EvKeyReceived(c) \/ HC_AddKeyCheck(c)
    \/ HC_AddKeyAppend(c) \/ HC_WriteKeyAccepted(c) \/ HC_WritePairingComplete(c)
    \/ HC_EvPairingComplete(c)

\* ---------------------------------------------------- HandshakeClient::pair
\* pair returns r: its halves of the stream are dropped.
CFinish(c, r) ==
    /\ cpc' = [cpc EXCEPT ![c] = "Done"]
    /\ cres' = [cres EXCEPT ![c] = r]
    /\ cOpen' = [cOpen EXCEPT ![c] = FALSE]

\* TcpStream::connect: refused without a bound listener; otherwise the
\* connection is established in the listener's backlog, or the network fails.
Pair_Connect(c) ==
    /\ cfg.cliKind[c] = "impl" /\ cpc[c] = "Idle"
    /\ \/ /\ listener = "bound"
          /\ backlog' = Append(backlog, c)
          /\ cOpen' = [cOpen EXCEPT ![c] = TRUE]
          /\ sOpen' = [sOpen EXCEPT ![c] = TRUE]
          /\ cpc' = [cpc EXCEPT ![c] = "WriteHello"]
          /\ UNCHANGED <<cres, faults>>
       \/ /\ listener # "bound" \/ faults < MaxFaults
          /\ faults' = IF listener = "bound" THEN faults + 1 ELSE faults
          /\ cpc' = [cpc EXCEPT ![c] = "Done"]
          /\ cres' = [cres EXCEPT ![c] = Err("Network", "Failed to connect")]
          /\ UNCHANGED <<backlog, cOpen, sOpen>>
    /\ UNCHANGED <<cfg, auxVars, syncVars, srvVars, evlog, hVars, authorized_keys, cst, c2s, s2c, broken,
                   srecv, crecv, rogueSent>>

\* A step of pair that writes one message and goes on.
Pair_Write(c, at, m, next) ==
    /\ cfg.cliKind[c] = "impl" /\ cpc[c] = at
    /\ \E w \in WriteOutcomes(sOpen[c], broken[c]) :
         IF w = "ok"
         THEN /\ c2s' = [c2s EXCEPT ![c] = Sent(@, sOpen[c], m)]
              /\ cpc' = [cpc EXCEPT ![c] = next]
              /\ UNCHANGED <<cres, cOpen>>
         ELSE CFinish(c, Err("Io", "write")) /\ UNCHANGED c2s
    /\ UNCHANGED <<cfg, auxVars, syncVars, srvVars, backlog, evlog, hVars, authorized_keys, cst, s2c, sOpen,
                   broken, srecv, crecv, rogueSent, faults>>

\* A variant of pair that sends KeyExchange without waiting for HelloAck.
Pair_WriteHelloNoWait(c) ==
    Pair_Write(c, "WriteHello", Hello(cfg.cver, ClientName(c)), "WriteKeyExchange")

Pair_WriteHello(c) ==
    Pair_Write(c, "WriteHello", Hello(cfg.cver, ClientName(c)), "ReadHelloAck")

\* What pair does with the line it read at each of its three reads:
\* [next |-> position, res |-> the result it returns at once, if any].
OnHelloAck(m, version) ==
    IF m.type = "HelloAck"
    THEN IF m.version # version
         THEN [next |-> "Done", res |-> Err("Handshake", "Protocol version mismatch")]
         ELSE [next |-> "WriteKeyExchange", res |-> Pending]
    ELSE IF m.type = "Error"
    THEN [next |-> "Done", res |-> Err("Handshake", m.message)]
    ELSE [next |-> "Done", res |-> Err("Handshake", "Unexpected response")]

\* A variant of pair's second match that takes any reply but Error for the
\* acceptance.
OnKeyAcceptedLax(m) ==
    IF m.type = "Error"
    THEN [next |-> "Done", res |-> Err("Handshake", m.message)]
    ELSE [next |-> "ReadPairingComplete", res |-> Pending]

OnKeyAccepted(m) ==
    IF m.type = "KeyAccepted"
    THEN [next |-> "ReadPairingComplete", res |-> Pending]
    ELSE IF m.type = "Error"
    THEN [next |-> "Done", res |-> Err("Handshake", m.message)]
    ELSE [next |-> "Done", res |-> Err("Handshake", "Expected KeyAccepted")]

OnPairingComplete(m, st) ==
    IF m.type = "PairingComplete"
    THEN [next |-> "Done", res |-> PairingResult(st.server_name, m.ssh_user, st.code)]
    ELSE [next |-> "Done", res |-> Err("Handshake", "Expected PairingComplete")]

\* A read of pair: read_line, from_json, match; o is what the match makes of
\* the line read.
Pair_Read(c, at, o) ==
    /\ cfg.cliKind[c] = "impl" /\ cpc[c] = at
    /\ CanRead(s2c[c], sOpen[c], broken[c])
    /\ LET kind == ReadKind(s2c[c], broken[c]) IN
       IF kind # "line"
       THEN CFinish(c, ReadErr(kind)) /\ UNCHANGED <<cst, s2c, crecv>>
       ELSE LET m == Head(s2c[c]) IN
            /\ s2c' = [s2c EXCEPT ![c] = Tail(@)]
            /\ crecv' = [crecv EXCEPT ![c] = Append(@, m)]
            /\ IF m.type = "Malformed"
               THEN CFinish(c, ReadErr("parse")) /\ UNCHANGED cst
               ELSE /\ IF o.next = "Done"
                       THEN CFinish(c, o.res)
                       ELSE /\ cpc' = [cpc EXCEPT ![c] = o.next]
                            /\ UNCHANGED <<cres, cOpen>>
                    /\ cst' = IF m.type = "HelloAck"
                              THEN [cst EXCEPT ![c] = [server_name |-> m.device_name,
                                                       code |-> m.verification_code]]
                              ELSE cst
    /\ UNCHANGED <<cfg, auxVars, syncVars, srvVars, backlog, evlog, hVars, authorized_keys, c2s, sOpen,
                   broken, srecv, rogueSent, faults>>

Pair_ReadHelloAck(c) == Pair_Read(c, "ReadHelloAck", OnHelloAck(Head(s2c[c]), cfg.cver))

Pair_WriteKeyExchange(c) ==
    Pair_Write(c, "WriteKeyExchange", KeyExchange(cfg.ckey[c]), "ReadKeyAccepted")

Pair_ReadKeyAccepted(c) == Pair_Read(c, "ReadKeyAccepted", OnKeyAccepted(Head(s2c[c])))

Pair_ReadPairingComplete(c) ==
    Pair_Read(c, "ReadPairingComplete", OnPairingComplete(Head(s2c[c]), cst[c]))

pair(c) ==
    \/ Pair_Connect(c) \/ Pair_WriteHello(c) \/ Pair_ReadHelloAck(c)
    \/ Pair_WriteKeyExchange(c) \/ Pair_ReadKeyAccepted(c) \/ Pair_ReadPairingComplete(c)

\* -------------------------------------------------- non-conforming peers
\* What a peer that is not this code may put on the wire towards a server
\* and towards a client. It sends its next line once the last one was read
\* (this code reads one line at a time, so what it reads is the same).
RogueClientMsgs ==
    { Hello(PROTOCOL_VERSION, "Rogue"), Hello(OtherVersion, "Rogue"), KeyExchange(KeyB),
      KeyAccepted, ErrorMsg(9, "rogue"), Malformed }
RogueServerMsgs ==
    { HelloAck(PROTOCOL_VERSION, "Rogue", None), HelloAck(OtherVersion, "Rogue", None),
      KeyAccepted, PairingComplete("rogue"), ErrorMsg(9, "rogue"), Malformed,
      Hello(PROTOCOL_VERSION, "Rogue") }

RogueClientConnect(c) ==
    /\ cfg.cliKind[c] = "rogue" /\ cpc[c] = "Idle" /\ listener = "bound"
    /\ backlog' = Append(backlog, c)
    /\ cOpen' = [cOpen EXCEPT ![c] = TRUE]
    /\ sOpen' = [sOpen EXCEPT ![c] = TRUE]
    /\ cpc' = [cpc EXCEPT ![c] = "Rogue"]
    /\ UNCHANGED <<cfg, auxVars, syncVars, srvVars, evlog, hVars, authorized_keys, cres, cst, c2s, s2c, broken,
                   srecv, crecv, rogueSent, faults>>

RogueClientSend(c) ==
    /\ cfg.cliKind[c] = "rogue" /\ cpc[c] = "Rogue"
    /\ rogueSent[c] < cfg.rogueMax /\ ~broken[c] /\ sOpen[c] /\ c2s[c] = <<>>
    /\ \E m \in RogueClientMsgs : c2s' = [c2s EXCEPT ![c] = Append(@, m)]
    /\ rogueSent' = [rogueSent EXCEPT ![c] = @ + 1]
    /\ UNCHANGED <<cfg, auxVars, syncVars, srvVars, backlog, evlog, hVars, authorized_keys, cVars, s2c, cOpen,
                   sOpen, broken, srecv, crecv, faults>>

RogueClientClose(c) ==
    /\ cfg.cliKind[c] = "rogue" /\ cpc[c] = "Rogue"
    /\ cpc' = [cpc EXCEPT ![c] = "Done"]
    /\ cOpen' = [cOpen EXCEPT ![c] = FALSE]
    /\ UNCHANGED <<cfg, auxVars, syncVars, srvVars, backlog, evlog, hVars, authorized_keys, cres, cst, c2s, s2c,
                   sOpen, broken, srecv, crecv, rogueSent, faults>>

RogueServerAccept(c) ==
    /\ cfg.srvKind = "rogue" /\ InBacklog(c)
    /\ backlog' = SelectSeq(backlog, LAMBDA x : x # c)
    /\ hpc' = [hpc EXCEPT ![c] = "Rogue"]
    /\ UNCHANGED <<cfg, auxVars, syncVars, srvVars, evlog, hres, hst, authorized_keys, cVars, chanVars,
                   srecv, crecv, rogueSent, faults>>

RogueServerSend(c) ==
    /\ cfg.srvKind = "rogue" /\ hpc[c] = "Rogue"
    /\ rogueSent[c] < cfg.rogueMax /\ ~broken[c] /\ cOpen[c] /\ s2c[c] = <<>>
    /\ \E m \in RogueServerMsgs : s2c' = [s2c EXCEPT ![c] = Append(@, m)]
    /\ rogueSent' = [rogueSent EXCEPT ![c] = @ + 1]
    /\ UNCHANGED <<cfg, auxVars, syncVars, srvVars, backlog, evlog, hVars, authorized_keys, cVars, c2s, cOpen,
                   sOpen, broken, srecv, crecv, faults>>

RogueServerClose(c) ==
    /\ cfg.srvKind = "rogue" /\ hpc[c] = "Rogue"
    /\ hpc' = [hpc EXCEPT ![c] = "Done"]
    /\ sOpen' = [sOpen EXCEPT ![c] = FALSE]
    /\ UNCHANGED <<cfg, auxVars, syncVars, srvVars, backlog, evlog, hres, hst, authorized_keys, cVars, c2s, s2c,
                   cOpen, broken, srecv, crecv, rogueSent, faults>>

Rogue(c) ==
    \/ RogueClientConnect(c) \/ RogueClientSend(c) \/ RogueClientClose(c)
    \/ RogueServerAccept(c) \/ RogueServerSend(c) \/ RogueServerClose(c)

\* ===================================================================== sync
\* The SyncEvents of sync.rs go to a receiver that drains them; they are not
\* modelled.

\* The stream in the hand of device d, seen from its end.
YCh(d) == ychan[yst[d].conn]
YIn(d) == IF yst[d].role = "I" THEN YCh(d).r2i ELSE YCh(d).i2r
YPeerOpen(d) == IF yst[d].role = "I" THEN YCh(d).rOpen ELSE YCh(d).iOpen

\* The connection record after device d's end of it is dropped, after it took
\* the first line of its inbound queue, and after it wrote m.
YClosed(ch, role) ==
    IF role = "I" THEN [ch EXCEPT !.iOpen = FALSE] ELSE [ch EXCEPT !.rOpen = FALSE]
YTaken(ch, role) ==
    IF role = "I"
    THEN [ch EXCEPT !.r2i = Tail(@), !.irecv = Append(@, Head(ch.r2i))]
    ELSE [ch EXCEPT !.i2r = Tail(@), !.rrecv = Append(@, Head(ch.i2r))]
YWritten(ch, role, m) ==
    IF role = "I"
    THEN [ch EXCEPT !.i2r = Sent(@, ch.rOpen, m)]
    ELSE [ch EXCEPT !.r2i = Sent(@, ch.iOpen, m)]

\* A variant of run that ends its loop with whatever the handler returned.
AfterAttemptBreak(r) == [pc |-> "Cleanup", keep |-> TRUE]

\* What run does with the result of a handler: Ok breaks the loop with it, Err
\* is logged and the loop continues.
AfterAttempt(r) ==
    IF r.st = "ok" THEN [pc |-> "Cleanup", keep |-> TRUE] ELSE [pc |-> "Select", keep |-> FALSE]

\* handle_as_initiator / handle_as_responder returns r to its caller.
YReturn(d, r) ==
    /\ yst' = [yst EXCEPT ![d].last = r, ![d].failed = IF r.st = "err" THEN 1 ELSE @]
    /\ IF cfg.driver[d] = "run"
       THEN /\ ypc' = [ypc EXCEPT ![d] = AfterAttempt(r).pc]
            /\ yres' = IF AfterAttempt(r).keep THEN [yres EXCEPT ![d] = r] ELSE yres
       ELSE /\ ypc' = [ypc EXCEPT ![d] = "Returned"]
            /\ yres' = [yres EXCEPT ![d] = r]

\* A read of a handler: read_line, from_json, match; o is what the match makes
\* of the line read.
Y_Read(d, at, o) ==
    /\ ypc[d] = at
    /\ CanRead(YIn(d), YPeerOpen(d), YCh(d).broken)
    /\ LET k == yst[d].conn
           role == yst[d].role
           kind == ReadKind(YIn(d), YCh(d).broken)
       IN  IF kind # "line"
           THEN /\ YReturn(d, ReadErr(kind))
                /\ ychan' = [ychan EXCEPT ![k] = YClosed(@, role)]
           ELSE LET m == Head(YIn(d))
                IN  IF m.type = "Malformed"
                    THEN /\ YReturn(d, ReadErr("parse"))
                         /\ ychan' = [ychan EXCEPT ![k] = YClosed(YTaken(@, role), role)]
                    ELSE IF o.next = "Done"
                    THEN /\ YReturn(d, o.res)
                         /\ ychan' = [ychan EXCEPT ![k] = YClosed(YTaken(@, role), role)]
                    ELSE /\ ypc' = [ypc EXCEPT ![d] = o.next]
                         /\ yst' = [yst EXCEPT ![d] =
                                IF m.type \in {"SyncHello", "SyncHelloAck"}
                                THEN [@ EXCEPT !.peer_name = m.device_name,
                                               !.peer_user = m.ssh_user,
                                               !.peer_key = m.public_key,
                                               !.pend = o.res]
                                ELSE [@ EXCEPT !.pend = o.res]]
                         /\ ychan' = [ychan EXCEPT ![k] = YTaken(@, role)]
                         /\ UNCHANGED yres
    /\ UNCHANGED <<cfg, auxVars, pairVars, faults, ykeys, ynet, yconn, attempts>>

\* A write of a handler that goes on to `next`.
Y_Write(d, at, m, next) ==
    /\ ypc[d] = at
    /\ LET k == yst[d].conn
           role == yst[d].role
       IN  \E w \in WriteOutcomes(YPeerOpen(d), YCh(d).broken) :
             IF w = "ok"
             THEN /\ ychan' = [ychan EXCEPT ![k] = YWritten(@, role, m)]
                  /\ ypc' = [ypc EXCEPT ![d] = next]
                  /\ UNCHANGED <<yres, yst>>
             ELSE /\ YReturn(d, Err("Io", "write"))
                  /\ ychan' = [ychan EXCEPT ![k] = YClosed(@, role)]
    /\ UNCHANGED <<cfg, auxVars, pairVars, faults, ykeys, ynet, yconn, attempts>>

\* A write of a handler after which it returns r.
Y_WriteReturn(d, at, m, r) ==
    /\ ypc[d] = at
    /\ LET k == yst[d].conn
           role == yst[d].role
       IN  \E w \in WriteOutcomes(YPeerOpen(d), YCh(d).broken) :
             IF w = "ok"
             THEN /\ ychan' = [ychan EXCEPT ![k] = YClosed(YWritten(@, role, m), role)]
                  /\ YReturn(d, r)
             ELSE /\ YReturn(d, Err("Io", "write"))
                  /\ ychan' = [ychan EXCEPT ![k] = YClosed(@, role)]
    /\ UNCHANGED <<cfg, auxVars, pairVars, faults, ykeys, ynet, yconn, attempts>>

\* self.key_manager.add_authorized_key(&peer_key)?
Y_AddKey(d, at, next) ==
    /\ ypc[d] = at
    /\ \/ /\ ykeys' = [ykeys EXCEPT ![d] = add_authorized_key(@, yst[d].peer_key)]
          /\ ypc' = [ypc EXCEPT ![d] = next]
          /\ UNCHANGED <<yres, yst, ychan, faults>>
       \/ /\ faults < MaxFaults
          /\ faults' = faults + 1
          /\ YReturn(d, Err("Io", "authorized_keys"))
          /\ ychan' = [ychan EXCEPT ![yst[d].conn] = YClosed(@, yst[d].role)]
          /\ UNCHANGED ykeys
    /\ UNCHANGED <<cfg, auxVars, pairVars, ynet, yconn, attempts>>

\* ------------------------------------------------------ handle_as_initiator
FreeConn == CHOOSE k \in SyncConns : yconn[k] = NoConn /\ \A j \in 1..(k-1) : yconn[j] # NoConn

\* Connection attempts made, under way, or queued by discovery.
Attempted ==
    attempts + Len(ynet[1].found) + Len(ynet[2].found)
             + Cardinality({d \in Devs : ypc[d] = "I_Connect"})

\* TcpStream::connect(address)
Y_I_Connect(d) ==
    /\ ypc[d] = "I_Connect"
    /\ attempts' = attempts + 1
    /\ LET t == yst[d].peer IN
       \/ /\ ynet[t].listener = "bound"
          /\ yconn' = [yconn EXCEPT ![FreeConn] = [from |-> d, to |-> t]]
          /\ ychan' = [ychan EXCEPT ![FreeConn] = [ChanOff EXCEPT !.iOpen = TRUE, !.rOpen = TRUE]]
          /\ ynet' = IF cfg.driver[t] = "rogue" THEN ynet
                     ELSE [ynet EXCEPT ![t].backlog = Append(@, FreeConn)]
          /\ yst' = [yst EXCEPT ![d].conn = FreeConn, ![d].role = "I"]
          /\ ypc' = [ypc EXCEPT ![d] = "I_WriteHello"]
          /\ UNCHANGED <<yres, faults>>
       \/ /\ ynet[t].listener # "bound" \/ faults < MaxFaults
          /\ faults' = IF ynet[t].listener = "bound" THEN faults + 1 ELSE faults
          /\ YReturn(d, Err("Network", "Failed to connect"))
          /\ UNCHANGED <<yconn, ychan, ynet>>
    /\ UNCHANGED <<cfg, auxVars, pairVars, ykeys>>

Y_I_WriteHello(d) ==
    Y_Write(d, "I_WriteHello",
            SyncHello(cfg.yver[d], cfg.yname[d], cfg.yprio[d], DevKey(d), DevUser(d)),
            "I_ReadAck")

\* A variant of the initiator's match that confirms an accepting ack without
\* installing the key it carries.
OnSyncHelloAckNoInstall(m, version) ==
    IF m.type = "SyncHelloAck"
    THEN IF m.version # version
         THEN [next |-> "Done", res |-> Err("Protocol", "Protocol version mismatch")]
         ELSE IF ~m.accept_sync
         THEN [next |-> "Done", res |-> Err("SyncRejected", "Peer declined sync")]
         ELSE [next |-> "I_WriteComplete", res |-> Pending]
    ELSE IF m.type = "Error"
    THEN [next |-> "Done", res |-> Err("Sync", m.message)]
    ELSE [next |-> "Done", res |-> Err("Protocol", "Unexpected response")]

\* What handle_as_initiator does with the line it read where it expects
\* SyncHelloAck, and where it expects SyncComplete.
OnSyncHelloAck(m, version) ==
    IF m.type = "SyncHelloAck"
    THEN IF m.version # version
         THEN [next |-> "Done", res |-> Err("Protocol", "Protocol version mismatch")]
         ELSE IF ~m.accept_sync
         THEN [next |-> "Done", res |-> Err("SyncRejected", "Peer declined sync")]
         ELSE [next |-> "I_AddKey", res |-> Pending]
    ELSE IF m.type = "Error"
    THEN [next |-> "Done", res |-> Err("Sync", m.message)]
    ELSE [next |-> "Done", res |-> Err("Protocol", "Unexpected response")]

OnSyncCompleteI(m, st) ==
    IF m.type = "SyncComplete"
    THEN IF ~m.success
         THEN [next |-> "Done", res |-> Err("Sync", PeerFailureText(m.message))]
         ELSE [next |-> "Done", res |-> SyncResult(st.peer_name, st.peer_user, st.peer)]
    ELSE [next |-> "Done", res |-> Err("Protocol", "Expected SyncComplete")]

Y_I_ReadAck(d) == Y_Read(d, "I_ReadAck", OnSyncHelloAck(Head(YIn(d)), cfg.yver[d]))
\* A variant of the initiator that confirms without installing the peer's key.
Y_I_SkipAddKey(d) ==
    /\ ypc[d] = "I_AddKey"
    /\ ypc' = [ypc EXCEPT ![d] = "I_WriteComplete"]
    /\ UNCHANGED <<cfg, auxVars, pairVars, faults, yres, yst, ykeys, ynet, yconn, ychan, attempts>>

Y_I_AddKey(d) == Y_AddKey(d, "I_AddKey", "I_WriteComplete")
Y_I_WriteComplete(d) == Y_Write(d, "I_WriteComplete", SyncComplete(TRUE), "I_ReadComplete")
Y_I_ReadComplete(d) == Y_Read(d, "I_ReadComplete", OnSyncCompleteI(Head(YIn(d)), yst[d]))

handle_as_initiator(d) ==
    \/ Y_I_Connect(d) \/ Y_I_WriteHello(d) \/ Y_I_ReadAck(d) \/ Y_I_AddKey(d)
    \/ Y_I_WriteComplete(d) \/ Y_I_ReadComplete(d)

\* ------------------------------------------------------ handle_as_responder
\* A variant of the responder's check that does not detect a sync with itself.
OnSyncHelloNoSelfCheck(m, version, device_name, our_priority) ==
    IF m.type = "SyncHello"
    THEN IF m.version # version
         THEN [next |-> "R_WriteAbort",
               res |-> [msg |-> [type |-> "Error", code |-> 1,
                                 message |-> MismatchText(version, m.version)],
                        ret |-> Err("Protocol", "Protocol version mismatch")]]
         ELSE [next |-> "R_AddKey", res |-> Pending]
    ELSE [next |-> "R_WriteAbort",
          res |-> [msg |-> [type |-> "Error", code |-> 2,
                            message |-> "Expected SyncHello message"],
                   ret |-> Err("Protocol", "Expected SyncHello")]]

\* What handle_as_responder does with the line it read where it expects
\* SyncHello: go on, or send `msg` and return `ret`.
OnSyncHello(m, version, device_name, our_priority) ==
    IF m.type = "SyncHello"
    THEN IF m.version # version
         THEN [next |-> "R_WriteAbort",
               res |-> [msg |-> ErrorMsg(1, MismatchText(version, m.version)),
                        ret |-> Err("Protocol", "Protocol version mismatch")]]
         ELSE IF m.device_name = device_name /\ m.initiator_priority = our_priority
         THEN [next |-> "R_WriteAbort",
               res |-> [msg |-> SyncHelloAck(version, device_name, NoKey, "", FALSE),
                        ret |-> Err("SyncWithSelf", "")]]
         ELSE [next |-> "R_AddKey", res |-> Pending]
    ELSE [next |-> "R_WriteAbort",
          res |-> [msg |-> ErrorMsg(2, "Expected SyncHello message"),
                   ret |-> Err("Protocol", "Expected SyncHello")]]

OnSyncCompleteR(m) ==
    IF m.type = "SyncComplete"
    THEN IF ~m.success
         THEN [next |-> "Done", res |-> Err("Sync", PeerFailureText(m.message))]
         ELSE [next |-> "R_WriteComplete", res |-> Pending]
    ELSE [next |-> "Done", res |-> Err("Protocol", "Expected SyncComplete")]

Y_R_ReadHello(d) ==
    Y_Read(d, "R_ReadHello",
           OnSyncHello(Head(YIn(d)), cfg.yver[d], cfg.yname[d], cfg.yprio[d]))

Y_R_WriteAbort(d) ==
    Y_WriteReturn(d, "R_WriteAbort", yst[d].pend.msg, yst[d].pend.ret)

\* A variant of the responder that accepts before it has installed the key.
Y_R_AckBeforeAddKey(d) ==
    /\ ypc[d] = "R_AddKey"
    /\ ypc' = [ypc EXCEPT ![d] = "R_WriteAck"]
    /\ UNCHANGED <<cfg, auxVars, pairVars, faults, yres, yst, ykeys, ynet, yconn, ychan, attempts>>

Y_R_AddKey(d) == Y_AddKey(d, "R_AddKey", "R_WriteAck")

Y_R_WriteAck(d) ==
    Y_Write(d, "R_WriteAck",
            SyncHelloAck(cfg.yver[d], cfg.yname[d], DevKey(d), DevUser(d), TRUE),
            "R_ReadComplete")

Y_R_ReadComplete(d) == Y_Read(d, "R_ReadComplete", OnSyncCompleteR(Head(YIn(d))))

Y_R_WriteComplete(d) ==
    Y_WriteReturn(d, "R_WriteComplete", SyncComplete(TRUE),
                  SyncResult(yst[d].peer_name, yst[d].peer_user, yconn[yst[d].conn].from))

handle_as_responder(d) ==
    \/ Y_R_ReadHello(d) \/ Y_R_WriteAbort(d) \/ Y_R_AddKey(d) \/ Y_R_WriteAck(d)
    \/ Y_R_ReadComplete(d) \/ Y_R_WriteComplete(d)

\* ---------------------------------------------------------- SyncHandler::run
\* TcpListener::bind
Y_Bind(d) ==
    /\ ypc[d] = "Start"
    /\ \/ /\ ynet' = [ynet EXCEPT ![d].listener = "bound"]
          /\ ypc' = [ypc EXCEPT ![d] = "Advertise"]
          /\ UNCHANGED <<yres, faults>>
       \/ /\ faults < MaxFaults
          /\ faults' = faults + 1
          /\ ypc' = [ypc EXCEPT ![d] = "Returned"]
          /\ yres' = [yres EXCEPT ![d] = Err("Network", "Failed to bind")]
          /\ UNCHANGED ynet
    /\ UNCHANGED <<cfg, auxVars, pairVars, yst, ykeys, yconn, ychan, attempts>>

\* Dropping the listener resets the connections still waiting in its backlog.
YDropListener(net) == [net EXCEPT !.listener = "closed", !.backlog = <<>>]
YResetBacklog(d) ==
    [k \in SyncConns |->
        IF \E i \in 1..Len(ynet[d].backlog) : ynet[d].backlog[i] = k
        THEN [ychan[k] EXCEPT !.broken = TRUE] ELSE ychan[k]]

\* SyncAdvertiser::stop (also run by its Drop): unregister what is registered.
stop(net) ==
    IF net.adv = "registered"
    THEN [net EXCEPT !.adv = "withdrawn", !.unregs = @ + 1]
    ELSE net

\* SyncAdvertiser::new()?; advertiser.advertise()?
Y_Advertise(d) ==
    /\ ypc[d] = "Advertise"
    /\ \/ /\ ynet' = [ynet EXCEPT ![d].adv = "registered"]
          /\ ypc' = [ypc EXCEPT ![d] = "Browse"]
          /\ UNCHANGED <<yres, faults, ychan>>
       \/ /\ faults < MaxFaults
          /\ faults' = faults + 1
          /\ ypc' = [ypc EXCEPT ![d] = "Returned"]
          /\ yres' = [yres EXCEPT ![d] = Err("Discovery", "advertise")]
          /\ ynet' = [ynet EXCEPT ![d] = YDropListener(@)]
          /\ ychan' = YResetBacklog(d)
    /\ UNCHANGED <<cfg, auxVars, pairVars, yst, ykeys, yconn, attempts>>

\* SyncBrowser::new()?; spawn find_peers; create the timeout sleep
Y_Browse(d) ==
    /\ ypc[d] = "Browse"
    /\ \/ /\ ynet' = [ynet EXCEPT ![d].browser = "on", ![d].timer = "running"]
          /\ ypc' = [ypc EXCEPT ![d] = "Select"]
          /\ UNCHANGED <<yres, faults, ychan>>
       \/ /\ faults < MaxFaults
          /\ faults' = faults + 1
          /\ ypc' = [ypc EXCEPT ![d] = "Returned"]
          /\ yres' = [yres EXCEPT ![d] = Err("Discovery", "browse")]
          /\ ynet' = [ynet EXCEPT ![d] = YDropListener(stop(@))]
          /\ ychan' = YResetBacklog(d)
    /\ UNCHANGED <<cfg, auxVars, pairVars, yst, ykeys, yconn, attempts>>

\* The sleep of timeout_secs elapses.
TimerElapse(d) ==
    /\ ynet[d].timer = "running"
    /\ ynet' = [ynet EXCEPT ![d].timer = "elapsed"]
    /\ UNCHANGED <<cfg, auxVars, pairVars, faults, ypc, yres, yst, ykeys, yconn, ychan, attempts>>

\* find_peers resolves the other device's service and forwards it on
\* peer_found_tx, with or without an address.
Discover(d) ==
    /\ ynet[d].browser = "on" /\ ynet[d].timer = "running"
    /\ \/ cfg.driver[Other(d)] = "rogue"
       \/ ynet[Other(d)].adv = "registered"
    /\ Attempted < MaxSyncConns
    /\ \E has_address \in BOOLEAN :
         ynet' = [ynet EXCEPT ![d].found =
                     Append(@, [dev |-> Other(d), has_address |-> has_address])]
    /\ UNCHANGED <<cfg, auxVars, pairVars, faults, ypc, yres, yst, ykeys, yconn, ychan, attempts>>

\* select!: the timeout branch
Y_Timeout(d) ==
    /\ ypc[d] = "Select" /\ ynet[d].timer = "elapsed"
    /\ ypc' = [ypc EXCEPT ![d] = "Cleanup"]
    /\ yres' = [yres EXCEPT ![d] = Err("Timeout", "No sync peer found")]
    /\ UNCHANGED <<cfg, auxVars, pairVars, faults, yst, ykeys, ynet, yconn, ychan, attempts>>

\* select!: listener.accept() returned a connection; handle_as_responder is
\* awaited in the branch. (The test harness accepts once and calls it.)
Y_Accept(d) ==
    /\ ypc[d] \in {"Select", "Accept"}
    /\ ynet[d].backlog # <<>>
    /\ yst' = [yst EXCEPT ![d].conn = Head(ynet[d].backlog), ![d].role = "R",
                          ![d].peer = yconn[Head(ynet[d].backlog)].from]
    /\ ynet' = [ynet EXCEPT ![d].backlog = Tail(@)]
    /\ ypc' = [ypc EXCEPT ![d] = "R_ReadHello"]
    /\ UNCHANGED <<cfg, auxVars, pairVars, faults, yres, ykeys, yconn, ychan, attempts>>

\* select!: listener.accept() failed: logged, the loop continues.
Y_AcceptFail(d) ==
    /\ ypc[d] = "Select" /\ faults < MaxFaults
    /\ faults' = faults + 1
    /\ UNCHANGED <<cfg, auxVars, pairVars, syncVars>>

\* select!: a peer arrived on peer_found_rx; with an address,
\* handle_as_initiator is awaited in the branch.
Y_PeerFound(d) ==
    /\ ypc[d] = "Select" /\ ynet[d].found # <<>>
    /\ ynet' = [ynet EXCEPT ![d].found = Tail(@)]
    /\ IF Head(ynet[d].found).has_address
       THEN /\ ypc' = [ypc EXCEPT ![d] = "I_Connect"]
            /\ yst' = [yst EXCEPT ![d].peer = Head(ynet[d].found).dev,
                                  ![d].conn = 0, ![d].role = "I"]
       ELSE UNCHANGED <<ypc, yst>>
    /\ UNCHANGED <<cfg, auxVars, pairVars, faults, yres, ykeys, yconn, ychan, attempts>>

\* browser_handle.abort(); advertiser.stop()?; result
Y_Cleanup(d) ==
    /\ ypc[d] = "Cleanup"
    /\ ynet' = [ynet EXCEPT ![d] = YDropListener([stop(@) EXCEPT !.browser = "off"])]
    /\ ychan' = YResetBacklog(d)
    /\ ypc' = [ypc EXCEPT ![d] = "Returned"]
    /\ UNCHANGED <<cfg, auxVars, pairVars, faults, yres, yst, ykeys, yconn, attempts>>

run(d) ==
    \/ Y_Bind(d) \/ Y_Advertise(d) \/ Y_Browse(d) \/ Y_Timeout(d) \/ Y_Accept(d)
    \/ Y_PeerFound(d) \/ Y_Cleanup(d)

\* ------------------------------------------ non-conforming peers of a sync
RogueInitiatorMsgs(t) ==
    { SyncHello(PROTOCOL_VERSION, "Rogue", 9, KeyOld, "mallory"),
      SyncHello(OtherVersion, "Rogue", 9, KeyOld, "mallory"),
      SyncHello(PROTOCOL_VERSION, cfg.yname[t], cfg.yprio[t], KeyOld, "mallory"),
      SyncComplete(TRUE), SyncComplete(FALSE), ErrorMsg(9, "rogue"), Malformed }
RogueResponderMsgs ==
    { SyncHelloAck(PROTOCOL_VERSION, "Rogue", KeyOld, "mallory", TRUE),
      SyncHelloAck(OtherVersion, "Rogue", KeyOld, "mallory", TRUE),
      SyncHelloAck(PROTOCOL_VERSION, "Rogue", NoKey, "", FALSE),
      SyncComplete(TRUE), SyncComplete(FALSE), ErrorMsg(9, "rogue"), Malformed }

RogueSyncConnect(d) ==
    /\ cfg.driver[d] = "rogue" /\ ynet[Other(d)].listener = "bound"
    /\ Attempted < MaxSyncConns
    /\ attempts' = attempts + 1
    /\ yconn' = [yconn EXCEPT ![FreeConn] = [from |-> d, to |-> Other(d)]]
    /\ ychan' = [ychan EXCEPT ![FreeConn] = [ChanOff EXCEPT !.iOpen = TRUE, !.rOpen = TRUE]]
    /\ ynet' = [ynet EXCEPT ![Other(d)].backlog = Append(@, FreeConn)]
    /\ UNCHANGED <<cfg, auxVars, pairVars, faults, ypc, yres, yst, ykeys>>

\* The rogue end of connection k sends a line, once its last one was read.
RogueSyncSend(k) ==
    /\ yconn[k] # NoConn /\ ~ychan[k].broken
    /\ \/ /\ cfg.driver[yconn[k].from] = "rogue"
          /\ ychan[k].iOpen /\ ychan[k].rOpen /\ ychan[k].i2r = <<>>
          /\ ychan[k].isent < cfg.rogueMax
          /\ \E m \in RogueInitiatorMsgs(yconn[k].to) :
               ychan' = [ychan EXCEPT ![k].i2r = Append(@, m), ![k].isent = @ + 1]
       \/ /\ cfg.driver[yconn[k].to] = "rogue"
          /\ ychan[k].iOpen /\ ychan[k].rOpen /\ ychan[k].r2i = <<>>
          /\ ychan[k].rsent < cfg.rogueMax
          /\ \E m \in RogueResponderMsgs :
               ychan' = [ychan EXCEPT ![k].r2i = Append(@, m), ![k].rsent = @ + 1]
    /\ UNCHANGED <<cfg, auxVars, pairVars, faults, ypc, yres, yst, ykeys, ynet, yconn, attempts>>

RogueSyncClose(k) ==
    /\ yconn[k] # NoConn
    /\ \/ /\ cfg.driver[yconn[k].from] = "rogue" /\ ychan[k].iOpen
          /\ ychan' = [ychan EXCEPT ![k].iOpen = FALSE]
       \/ /\ cfg.driver[yconn[k].to] = "rogue" /\ ychan[k].rOpen
          /\ ychan' = [ychan EXCEPT ![k].rOpen = FALSE]
    /\ UNCHANGED <<cfg, auxVars, pairVars, faults, ypc, yres, yst, ykeys, ynet, yconn, attempts>>

\* A sync connection is reset (a transport failure).
YConnReset(k) ==
    /\ faults < MaxFaults
    /\ yconn[k] # NoConn /\ ~ychan[k].broken /\ (ychan[k].iOpen \/ ychan[k].rOpen)
    /\ ychan' = [ychan EXCEPT ![k].broken = TRUE]
    /\ faults' = faults + 1
    /\ UNCHANGED <<cfg, auxVars, pairVars, ypc, yres, yst, ykeys, ynet, yconn, attempts>>

\* ------------------------------------------- KeyManager, called directly
\* A configuration in which neither a pairing nor a sync runs.
IdleCfg ==
    [scen |-> "lib", rogueMax |-> 0] @@ PairOff @@ SyncOff
        @@ [file0 |-> [d \in Devs |-> <<>>]]

CoreIdle ==
    /\ cfg = IdleCfg
    /\ authorized_keys = <<>>
    /\ PairIdle
    /\ SyncIdle

\* Lines an authorized_keys file may hold before the calls: a comment, keys
\* of third parties, and key A commented out.
StoreLines ==
    { <<Hash, 8>>, KeyOld.public_key, KeyA.public_key, KeyB.public_key,
      <<Hash, Sp>> \o KeyA.public_key }

RECURSIVE JoinLines(_)
JoinLines(ls) == IF ls = <<>> THEN <<>> ELSE Head(ls) \o <<NL>> \o JoinLines(Tail(ls))

\* The files: up to MaxStoreLines distinct lines, the last one ending in a
\* line feed or not (a file edited by hand).
StoreFiles ==
    LET seqs == { ls \in UNION { [1..n -> StoreLines] : n \in 0..MaxStoreLines } :
                    \A i, j \in 1..Len(ls) : i # j => ls[i] # ls[j] }
        whole == { JoinLines(ls) : ls \in seqs }
    IN  whole \cup { SubSeq(f, 1, Len(f) - 1) : f \in whole \ {<<>>} }

\* The keys added: key A, key B, key A under another comment, and a line of
\* a single word.
StoreKeys == { KeyA.public_key, KeyB.public_key, <<1, Sp, 2, Sp, 6>>, <<3>> }

KeyInit ==
    /\ CoreIdle
    /\ \E f \in StoreFiles, k \in StoreKeys :
          ks = [file0 |-> f, file |-> f, key |-> k, res |-> <<>>]
    /\ sc = ScOff
    /\ cl = ClOff
    /\ cd = CdOff
    /\ ad = AdOff
    /\ br = BrOff /\ fp = FpOff /\ pf = PfOff

\* KeyManager::add_authorized_key(key): Ok(()) with the file as the call left
\* it, or the error of a failed read or write of the file.
AddAuthorizedKey ==
    /\ cfg.scen = "lib" /\ ks.key # <<>>
    /\ Len(ks.res) < MaxAdds
    /\ \/ ks' = [ks EXCEPT !.file = add_authorized_key(ks.file, ks.key),
                            !.res = Append(@, "ok")]
       \/ /\ \A i \in 1..Len(ks.res) : ks.res[i] = "ok"
          /\ ks' = [ks EXCEPT !.res = Append(@, "io")]
    /\ UNCHANGED <<coreVars, notKs>>

KeyNext == AddAuthorizedKey

KeySpec == KeyInit /\ [][KeyNext]_vars

\* ------------------------------------------------ SubnetScanner::scan_ips
\* Candidate addresses, and the scanner's port.
Hosts == 1..MaxHosts
ScanPort == 8099

\* format!("scanner-{}", std::process::id())
ScannerName == "scanner-4242"

\* The line feed identify_device writes after the Hello line: an empty line.
EmptyLine == [type |-> "Empty"]

\* device_name.to_lowercase().replace(' ', "-") followed by ".local."
ProbeHostname(device_name) ==
    IF device_name = ServerName THEN "test-server.local." ELSE "?.local."

\* format!("{}._connecto._tcp.local.", device_name)
ProbeInstance(device_name) ==
    IF device_name = ServerName THEN "Test Server._connecto._tcp.local."
    ELSE "?._connecto._tcp.local."

DiscoveredDevice(name, hostname, addresses, port, instance_name) ==
    [st |-> "ok", name |-> name, hostname |-> hostname, addresses |-> addresses,
     port |-> port, instance_name |-> instance_name]

\* What a host may send on the connection of a probe.
HostReplies ==
    { HelloAck(PROTOCOL_VERSION, ServerName, None),
      HelloAck(OtherVersion, ServerName, Some(generate_verification_code(42))),
      ErrorMsg(2, "Expected Hello message"), KeyAccepted, Malformed }

NoHost == [conn |-> "none", reset |-> FALSE, lines |-> <<>>, sent |-> <<>>, got |-> <<>>]

ScanInit ==
    /\ CoreIdle
    /\ ks = KsOff
    /\ cl = ClOff
    /\ cd = CdOff
    /\ ad = AdOff
    /\ br = BrOff /\ fp = FpOff /\ pf = PfOff
    /\ \E ips \in SUBSET Hosts :
          sc = [ips |-> ips,
                pc |-> [h \in Hosts |-> IF h \in ips THEN "Connect" ELSE "Off"],
                host |-> [h \in Hosts |-> NoHost],
                res |-> [h \in Hosts |-> Pending],
                ret |-> Pending]

\* identify_device returns r for address h (probe_host turns an error into
\* None); the stream is dropped.
ProbeDone(h, r) ==
    sc' = [sc EXCEPT !.pc[h] = "Done", !.res[h] = r,
                     !.host[h].conn = IF @ = "none" THEN "none" ELSE "dropped"]

\* probe_host: tokio::time::timeout(timeout, TcpStream::connect(addr))
Probe_Connect(h) ==
    /\ sc.pc[h] = "Connect"
    /\ \E o \in {"ok", "refused", "timeout"} :
          IF o = "ok"
          THEN sc' = [sc EXCEPT !.pc[h] = "WriteHello", !.host[h].conn = "open"]
          ELSE ProbeDone(h, [st |-> "none", why |-> o])
    /\ UNCHANGED <<coreVars, notSc>>

\* identify_device: write the Hello line and one more line feed.
Probe_WriteHello(h) ==
    /\ sc.pc[h] = "WriteHello"
    /\ \E w \in WriteOutcomes(sc.host[h].conn = "open", sc.host[h].reset) :
          IF w = "ok"
          THEN sc' = [sc EXCEPT !.pc[h] = "Read",
                                !.host[h].got = IF sc.host[h].conn = "open"
                                                THEN <<Hello(1, ScannerName), EmptyLine>>
                                                ELSE @]
          ELSE ProbeDone(h, Err("Network", "write"))
    /\ UNCHANGED <<coreVars, notSc>>

\* A variant of the match on the response that takes any well-formed message
\* for the answer of a device.
OnProbeResponseLax(m, h) ==
    IF m.type \in {"Malformed", "Empty"} THEN Err("Protocol", "Invalid response")
    ELSE DiscoveredDevice(ServerName, ProbeHostname(ServerName), <<h>>,
                          ScanPort, ProbeInstance(ServerName))

\* identify_device: serde_json::from_str(&line) and the match on the response.
OnProbeResponse(m, h) ==
    CASE m.type \in {"Malformed", "Empty"} -> Err("Protocol", "Invalid response")
      [] m.type = "HelloAck" ->
            DiscoveredDevice(m.device_name, ProbeHostname(m.device_name), <<h>>,
                             ScanPort, ProbeInstance(m.device_name))
      [] m.type = "Error" -> Err("Protocol", m.message)
      [] OTHER -> Err("Protocol", "Unexpected response")

\* identify_device: the read_line under its 2 s timeout returns.
Probe_Read(h) ==
    /\ sc.pc[h] = "Read"
    /\ CanRead(sc.host[h].lines, sc.host[h].conn = "open", sc.host[h].reset)
    /\ LET kind == ReadKind(sc.host[h].lines, sc.host[h].reset) IN
       CASE kind = "io" -> ProbeDone(h, Err("Network", "read"))
         [] kind = "eof" -> ProbeDone(h, OnProbeResponse(EmptyLine, h))
         [] OTHER -> ProbeDone(h, OnProbeResponse(Head(sc.host[h].lines), h))
    /\ UNCHANGED <<coreVars, notSc>>

\* identify_device: the 2 s pass with no line read.
Probe_ReadTimeout(h) ==
    /\ sc.pc[h] = "Read"
    /\ ~CanRead(sc.host[h].lines, sc.host[h].conn = "open", sc.host[h].reset)
    /\ ProbeDone(h, Err("Timeout", "Timed out waiting for response"))
    /\ UNCHANGED <<coreVars, notSc>>

probe_host(h) ==
    Probe_Connect(h) \/ Probe_WriteHello(h) \/ Probe_Read(h) \/ Probe_ReadTimeout(h)

\* The host at address h sends a line, closes, or resets the connection.
HostSend(h) ==
    /\ sc.pc[h] \in {"WriteHello", "Read"}
    /\ sc.host[h].conn = "open" /\ ~sc.host[h].reset
    /\ Len(sc.host[h].sent) < MaxHostSends
    /\ \E m \in HostReplies :
          sc' = [sc EXCEPT !.host[h].lines = Append(@, m), !.host[h].sent = Append(@, m)]
    /\ UNCHANGED <<coreVars, notSc>>

HostClose(h) ==
    /\ sc.pc[h] \in {"WriteHello", "Read"}
    /\ sc.host[h].conn = "open" /\ ~sc.host[h].reset
    /\ sc' = [sc EXCEPT !.host[h].conn = "closed"]
    /\ UNCHANGED <<coreVars, notSc>>

HostReset(h) ==
    /\ sc.pc[h] \in {"WriteHello", "Read"}
    /\ sc.host[h].conn # "none" /\ ~sc.host[h].reset
    /\ sc' = [sc EXCEPT !.host[h].reset = TRUE]
    /\ UNCHANGED <<coreVars, notSc>>

\* ---- probe_host against the HandshakeServer of the pairing model
\* probe_host on connection c: tokio::time::timeout(timeout, TcpStream::connect(addr))
Identify_Connect(c) ==
    /\ cfg.cliKind[c] = "probe" /\ cpc[c] = "Idle"
    /\ \/ /\ listener = "bound"
          /\ backlog' = Append(backlog, c)
          /\ cOpen' = [cOpen EXCEPT ![c] = TRUE]
          /\ sOpen' = [sOpen EXCEPT ![c] = TRUE]
          /\ cpc' = [cpc EXCEPT ![c] = "WriteHello"]
          /\ UNCHANGED cres
       \/ /\ listener # "bound"
          /\ cpc' = [cpc EXCEPT ![c] = "Done"]
          /\ cres' = [cres EXCEPT ![c] = [st |-> "none", why |-> "refused"]]
          /\ UNCHANGED <<backlog, cOpen, sOpen>>
    /\ UNCHANGED <<cfg, auxVars, syncVars, srvVars, evlog, hVars, authorized_keys, cst, c2s, s2c, broken,
                   srecv, crecv, rogueSent, faults>>

\* identify_device: write the Hello line and one more line feed.
Identify_WriteHello(c) ==
    /\ cfg.cliKind[c] = "probe" /\ cpc[c] = "WriteHello"
    /\ \E w \in WriteOutcomes(sOpen[c], broken[c]) :
         IF w = "ok"
         THEN /\ c2s' = [c2s EXCEPT ![c] =
                            Sent(Sent(@, sOpen[c], Hello(1, ScannerName)), sOpen[c], EmptyLine)]
              /\ cpc' = [cpc EXCEPT ![c] = "Read"]
              /\ UNCHANGED <<cres, cOpen>>
         ELSE CFinish(c, Err("Network", "write")) /\ UNCHANGED c2s
    /\ UNCHANGED <<cfg, auxVars, syncVars, srvVars, backlog, evlog, hVars, authorized_keys, cst, s2c, sOpen,
                   broken, srecv, crecv, rogueSent, faults>>

\* identify_device: the read_line under its 2 s timeout returns; the stream is
\* dropped with the result.
Identify_Read(c) ==
    /\ cfg.cliKind[c] = "probe" /\ cpc[c] = "Read"
    /\ CanRead(s2c[c], sOpen[c], broken[c])
    /\ LET kind == ReadKind(s2c[c], broken[c]) IN
       CASE kind = "io" -> CFinish(c, Err("Network", "read")) /\ UNCHANGED <<s2c, crecv>>
         [] kind = "eof" -> CFinish(c, OnProbeResponse(EmptyLine, c)) /\ UNCHANGED <<s2c, crecv>>
         [] OTHER -> /\ CFinish(c, OnProbeResponse(Head(s2c[c]), c))
                     /\ s2c' = [s2c EXCEPT ![c] = Tail(@)]
                     /\ crecv' = [crecv EXCEPT ![c] = Append(@, Head(s2c[c]))]
    /\ UNCHANGED <<cfg, auxVars, syncVars, srvVars, backlog, evlog, hVars, authorized_keys, cst, c2s, sOpen,
                   broken, srecv, rogueSent, faults>>

\* identify_device: the 2 s pass with no line read.
Identify_ReadTimeout(c) ==
    /\ cfg.cliKind[c] = "probe" /\ cpc[c] = "Read"
    /\ ~CanRead(s2c[c], sOpen[c], broken[c])
    /\ CFinish(c, Err("Timeout", "Timed out waiting for response"))
    /\ UNCHANGED <<cfg, auxVars, syncVars, srvVars, backlog, evlog, hVars, authorized_keys, cst, c2s, s2c,
                   sOpen, broken, srecv, crecv, rogueSent, faults>>

identify_device(c) ==
    Identify_Connect(c) \/ Identify_WriteHello(c) \/ Identify_Read(c) \/ Identify_ReadTimeout(c)

\* results.into_iter().flatten().collect()
Flatten(results) == { results[h] : h \in { x \in DOMAIN results : results[x].st = "ok" } }

\* scan_ips: every probe of the stream has completed; the devices are collected.
scan_ips ==
    /\ cfg.scen = "lib" /\ sc.pc # <<>>
    /\ sc.ret = Pending
    /\ \A h \in sc.ips : sc.pc[h] = "Done"
    /\ sc' = [sc EXCEPT !.ret = [st |-> "ok", devices |-> Flatten(sc.res)]]
    /\ UNCHANGED <<coreVars, notSc>>

ScanNext ==
    \/ \E h \in Hosts : probe_host(h)
    \/ \E h \in Hosts : HostSend(h) \/ HostClose(h) \/ HostReset(h)
    \/ scan_ips

ScanSpec == ScanInit /\ [][ScanNext]_vars

\* ------------------------------------- scan command: run_with_options
\* A device as the command sees it: its addresses and the tier that found it.
FoundDevice(addr, via) == [addresses |-> <<addr>>, via |-> via]

\* The device lists a tier may yield over the addresses 1..MaxHosts.
DeviceLists(via) ==
    { <<>> } \cup { <<FoundDevice(a, via)>> : a \in Hosts }
             \cup { <<FoundDevice(a, via), FoundDevice(b, via)>> : a, b \in Hosts }

\* for device in extra { if !devices.iter().any(|d| d.addresses == device.addresses)
\*   { devices.push(device) } }
RECURSIVE MergeExtra(_, _)
MergeExtra(devices, extra) ==
    IF extra = <<>> THEN devices
    ELSE MergeExtra(IF \E i \in 1..Len(devices) : devices[i].addresses = Head(extra).addresses
                    THEN devices ELSE Append(devices, Head(extra)),
                    Tail(extra))

\* The ad-hoc host's address as establish_fallback_connection reports it.
AdHocAddr == MaxHosts + 1

CliInit ==
    /\ CoreIdle
    /\ ks = KsOff /\ sc = ScOff /\ cd = CdOff /\ ad = AdOff /\ br = BrOff /\ fp = FpOff /\ pf = PfOff
    /\ \E m \in BOOLEAN, subs \in {<<>>, <<"10.1.2.0/24">>} :
          cl = [ClOff EXCEPT !.pc = "NewBrowser", !.macos = m, !.all_subnets = subs]

CliReturn(r) == cl' = [cl EXCEPT !.pc = "Returned", !.res = r]

\* let browser = ServiceBrowser::new()?;
Cli_NewBrowser ==
    /\ cl.pc = "NewBrowser"
    /\ \/ cl' = [cl EXCEPT !.pc = "Mdns", !.tiers = Append(@, "mdns")]
       \/ cl' = [cl EXCEPT !.pc = "Returned", !.tiers = Append(@, "mdns"), !.mdns = "error",
                           !.res = Err("Discovery", "Failed to create mDNS daemon")]
    /\ UNCHANGED <<coreVars, notCl>>

\* let mut devices = browser.scan_for_duration(..).await?;
Cli_Mdns ==
    /\ cl.pc = "Mdns"
    /\ \/ \E ds \in DeviceLists("mdns") :
            cl' = [cl EXCEPT !.devices = ds, !.mdns = "ok",
                             !.pc = IF ds = <<>> THEN "Subnet" ELSE "Report"]
       \/ cl' = [cl EXCEPT !.pc = "Returned", !.mdns = "error",
                           !.res = Err("Discovery", "Failed to browse")]
    /\ UNCHANGED <<coreVars, notCl>>

\* if devices.is_empty() { devices = scanner.scan().await; scan_subnets and merge }
Cli_Subnet ==
    /\ cl.pc = "Subnet"
    /\ \E local \in DeviceLists("subnet"),
          extra \in (IF cl.all_subnets = <<>> THEN {<<>>} ELSE DeviceLists("extra")) :
          LET ds == MergeExtra(local, extra) IN
          cl' = [cl EXCEPT !.devices = ds, !.tiers = Append(@, "subnet"),
                           !.pc = IF ds = <<>> THEN "AdHoc" ELSE "Report"]
    /\ UNCHANGED <<coreVars, notCl>>

\* if devices.is_empty() { on macOS: scan_for_networks, join the first network
\* found and add its host; elsewhere: nothing }
Cli_AdHoc ==
    /\ cl.pc = "AdHoc"
    /\ \E joined \in (IF cl.macos THEN BOOLEAN ELSE {FALSE}) :
          cl' = [cl EXCEPT !.tiers = Append(@, "adhoc"), !.pc = "Report",
                           !.devices = IF joined THEN <<FoundDevice(AdHocAddr, "adhoc")>> ELSE <<>>]
    /\ UNCHANGED <<coreVars, notCl>>

\* "No devices found." and Ok(()), or display_devices, cache_devices(&devices)?
\* and Ok(()).
Cli_Report ==
    /\ cl.pc = "Report"
    /\ \/ CliReturn(OkUnit)
       \/ cl.devices # <<>> /\ CliReturn(Err("Io", "cache_devices"))
    /\ UNCHANGED <<coreVars, notCl>>

run_with_options == Cli_NewBrowser \/ Cli_Mdns \/ Cli_Subnet \/ Cli_AdHoc \/ Cli_Report

CliNext == run_with_options

CliSpec == CliInit /\ [][CliNext]_vars

\* -------------------------------------------- SubnetScanner::parse_cidr
\* Characters of a CIDR string (ASCII): '+', '.', '/', and '0'.
Plus == 43
Dot == 46
Slash == 47
Zero == 48

\* A u32 is its 32 bits, most significant first.
Zero32 == [i \in 1..32 |-> 0]
Not32(x) == [i \in 1..32 |-> 1 - x[i]]
And32(x, y) == [i \in 1..32 |-> x[i] * y[i]]
Or32(x, y) == [i \in 1..32 |-> IF x[i] + y[i] > 0 THEN 1 ELSE 0]
Shl32(x, k) == [i \in 1..32 |-> IF i + k <= 32 THEN x[i + k] ELSE 0]
Less32(x, y) == \E i \in 1..32 : x[i] < y[i] /\ \A j \in 1..(i - 1) : x[j] = y[j]

\* x + 1 and x - 1 modulo 2^32.
Add1(x) ==
    IF x = Not32(Zero32) THEN Zero32
    ELSE LET j == CHOOSE j \in 1..32 : x[j] = 0 /\ \A k \in (j + 1)..32 : x[k] = 1
         IN  [i \in 1..32 |-> IF i < j THEN x[i] ELSE IF i = j THEN 1 ELSE 0]
Sub1(x) ==
    IF x = Zero32 THEN Not32(Zero32)
    ELSE LET j == CHOOSE j \in 1..32 : x[j] = 1 /\ \A k \in (j + 1)..32 : x[k] = 0
         IN  [i \in 1..32 |-> IF i < j THEN x[i] ELSE IF i = j THEN 0 ELSE 1]

RECURSIVE Pow2(_)
Pow2(n) == IF n = 0 THEN 1 ELSE 2 * Pow2(n - 1)

\* u32::from(Ipv4Addr) and Ipv4Addr::from(u32): the octets, big-endian.
U32(octets) == [i \in 1..32 |-> (octets[((i - 1) \div 8) + 1] \div Pow2(7 - ((i - 1) % 8))) % 2]
RECURSIVE BitsValue(_)
BitsValue(bits) == IF bits = <<>> THEN 0 ELSE 2 * BitsValue(SubSeq(bits, 1, Len(bits) - 1)) + bits[Len(bits)]
Ipv4Addr(x) == [o \in 1..4 |-> BitsValue(SubSeq(x, 8 * o - 7, 8 * o))]

\* str::split(sep): the fields between the separators.
FirstSep(s, sep) ==
    IF \E i \in 1..Len(s) : s[i] = sep
    THEN CHOOSE i \in 1..Len(s) : s[i] = sep /\ \A j \in 1..(i - 1) : s[j] # sep
    ELSE 0
RECURSIVE split(_, _)
split(s, sep) ==
    IF FirstSep(s, sep) = 0 THEN <<s>>
    ELSE <<SubSeq(s, 1, FirstSep(s, sep) - 1)>> \o split(SubSeq(s, FirstSep(s, sep) + 1, Len(s)), sep)

\* The value of a string of decimal digits if it is at most max, else -1
\* (an invalid digit, an empty string, a value out of range).
RECURSIVE ParseDigits(_, _, _)
ParseDigits(s, acc, max) ==
    IF s = <<>> THEN acc
    ELSE IF Head(s) \notin Zero..(Zero + 9) THEN -1
    ELSE IF acc * 10 + (Head(s) - Zero) > max THEN -1
    ELSE ParseDigits(Tail(s), acc * 10 + (Head(s) - Zero), max)

\* str::parse::<u8>(): an optional '+' and digits.
ParseU8(s) ==
    LET digits == IF s # <<>> /\ Head(s) = Plus THEN Tail(s) ELSE s
    IN  IF digits = <<>> THEN -1 ELSE ParseDigits(digits, 0, 255)

\* str::parse::<Ipv4Addr>(): four fields of one to three digits, at most 255,
\* without a leading zero; <<>> when it fails.
ParseOctet(s) ==
    IF Len(s) \notin 1..3 \/ (Len(s) > 1 /\ Head(s) = Zero) THEN -1 ELSE ParseDigits(s, 0, 255)
ParseIpv4(s) ==
    LET f == split(s, Dot)
    IN  IF Len(f) = 4 /\ \A i \in 1..4 : ParseOctet(f[i]) >= 0
        THEN [i \in 1..4 |-> ParseOctet(f[i])] ELSE <<>>

\* The Err(String) of parse_cidr: the text and the part formatted into it.
CidrErr(message, part) == [st |-> "err", message |-> message, part |-> part]

\* SubnetScanner::parse_cidr. The list (start..=end) is kept as its two ends.
\* An overflow of network + 1 or broadcast - 1 panics in a build with overflow
\* checks ("debug") and wraps in one without ("release").
parse_cidr(cidr, build) ==
    LET parts == split(cidr, Slash) IN
    IF Len(parts) # 2
    THEN CidrErr("Invalid CIDR format, expected IP/prefix (e.g., 10.0.0.0/24)", <<>>)
    ELSE LET base_ip == ParseIpv4(parts[1])
             prefix == ParseU8(parts[2])
         IN
         IF base_ip = <<>> THEN CidrErr("Invalid IP address: {}", parts[1])
         ELSE IF prefix < 0 THEN CidrErr("Invalid prefix length: {}", parts[2])
         ELSE IF prefix > 32 THEN CidrErr("Prefix length must be between 0 and 32", <<>>)
         ELSE IF prefix < 16
         THEN CidrErr("Prefix length must be at least /16 to avoid scanning too many hosts", <<>>)
         ELSE LET base_u32 == U32(base_ip)
                  mask == IF prefix = 32 THEN Not32(Zero32)
                          ELSE Shl32(Not32(Zero32), 32 - prefix)
                  network == And32(base_u32, mask)
                  broadcast == Or32(network, Not32(mask))
                  overflows == \/ network = Not32(Zero32)
                               \/ prefix >= 24 /\ broadcast = Zero32
              IN  IF overflows /\ build = "debug"
                  THEN [st |-> "panic"]
                  ELSE [st |-> "ok", start |-> Add1(network),
                        end |-> IF prefix >= 24 THEN Sub1(broadcast) ELSE broadcast]

\* The decimal digits of n, and "a.b.c.d/prefix".
RECURSIVE Dec(_)
Dec(n) == IF n < 10 THEN <<Zero + n>> ELSE Dec(n \div 10) \o <<Zero + (n % 10)>>
CidrText(ip, prefix) ==
    Dec(ip[1]) \o <<Dot>> \o Dec(ip[2]) \o <<Dot>> \o Dec(ip[3]) \o <<Dot>> \o Dec(ip[4])
        \o <<Slash>> \o Dec(prefix)

\* The addresses and prefixes of the inputs of the form ip/prefix.
CidrIps ==
    { <<192, 168, 1, 0>>, <<10, 0, 0, 0>>, <<10, 0, 0, 5>>, <<172, 16, 200, 77>>,
      <<0, 0, 0, 0>>, <<255, 255, 255, 255>>, <<255, 255, 255, 0>> }
CidrPrefixes == 0..MaxCidrPrefix

\* Inputs of another form:
\*   "192.168.1.0"
\*   "192.168.1.0/"
\*   "/24"
\*   ""
\*   "999.999.999.999/24"
\*   "not.an.ip/24"
\*   "192.168.1.0/33"
\*   "192.168.1.0/abc"
\*   "10.0.0.0/8"
\*   "10.0.0.0/24/1"
\*   "10.0.0.0/256"
\*   "10.0.00.0/24"
\*   "10.0.0/24"
\*   "10.0.0.0.0/24"
\*   "10.0.0.0/-24"
\*   " 10.0.0.0/24"
\*   "10.0.0.0/24 "
OtherCidrInputs ==
    {
      <<49, 57, 50, 46, 49, 54, 56, 46, 49, 46, 48>>,
      <<49, 57, 50, 46, 49, 54, 56, 46, 49, 46, 48, 47>>,
      <<47, 50, 52>>,
      <<>>,
      <<57, 57, 57, 46, 57, 57, 57, 46, 57, 57, 57, 46, 57, 57, 57, 47, 50, 52>>,
      <<110, 111, 116, 46, 97, 110, 46, 105, 112, 47, 50, 52>>,
      <<49, 57, 50, 46, 49, 54, 56, 46, 49, 46, 48, 47, 51, 51>>,
      <<49, 57, 50, 46, 49, 54, 56, 46, 49, 46, 48, 47, 97, 98, 99>>,
      <<49, 48, 46, 48, 46, 48, 46, 48, 47, 56>>,
      <<49, 48, 46, 48, 46, 48, 46, 48, 47, 50, 52, 47, 49>>,
      <<49, 48, 46, 48, 46, 48, 46, 48, 47, 50, 53, 54>>,
      <<49, 48, 46, 48, 46, 48, 48, 46, 48, 47, 50, 52>>,
      <<49, 48, 46, 48, 46, 48, 47, 50, 52>>,
      <<49, 48, 46, 48, 46, 48, 46, 48, 46, 48, 47, 50, 52>>,
      <<49, 48, 46, 48, 46, 48, 46, 48, 47, 45, 50, 52>>,
      <<32, 49, 48, 46, 48, 46, 48, 46, 48, 47, 50, 52>>,
      <<49, 48, 46, 48, 46, 48, 46, 48, 47, 50, 52, 32>>
    }

\* Other spellings of a well-formed input: "10.0.0.0/+24", "10.0.0.0/024".
SpelledCidrInputs ==
    { [input |-> <<49, 48, 46, 48, 46, 48, 46, 48, 47, 43, 50, 52>>, ip |-> <<10, 0, 0, 0>>, prefix |-> 24],
      [input |-> <<49, 48, 46, 48, 46, 48, 46, 48, 47, 48, 50, 52>>, ip |-> <<10, 0, 0, 0>>, prefix |-> 24] }

CidrInit ==
    /\ CoreIdle
    /\ ks = KsOff /\ sc = ScOff /\ cl = ClOff /\ ad = AdOff /\ br = BrOff /\ fp = FpOff /\ pf = PfOff
    /\ \E b \in {"debug", "release"} :
          \/ \E ip \in CidrIps, p \in CidrPrefixes :
                cd = [input |-> CidrText(ip, p), ip |-> ip, prefix |-> p, build |-> b,
                      res |-> Pending]
          \/ \E x \in SpelledCidrInputs :
                cd = [input |-> x.input, ip |-> x.ip, prefix |-> x.prefix, build |-> b,
                      res |-> Pending]
          \/ \E t \in OtherCidrInputs :
                cd = [input |-> t, ip |-> <<>>, prefix |-> -1, build |-> b, res |-> Pending]

\* A call of parse_cidr on the input.
ParseCidr ==
    /\ cd.build # "" /\ cd.res = Pending
    /\ cd' = [cd EXCEPT !.res = parse_cidr(cd.input, cd.build)]
    /\ UNCHANGED <<coreVars, notCd>>

CidrNext == ParseCidr

CidrSpec == CidrInit /\ [][CidrNext]_vars

\* ------------------------------------ ServiceAdvertiser / SyncAdvertiser
SERVICE_TYPE == "_connecto._tcp.local."
SYNC_SERVICE_TYPE == "_connecto-sync._tcp.local."

AdvertiserKinds == {"ServiceAdvertiser", "SyncAdvertiser"}
AdvServiceType(kind) == IF kind = "SyncAdvertiser" THEN SYNC_SERVICE_TYPE ELSE SERVICE_TYPE

\* Device names an advertiser is asked to advertise.
AdvNames == {"laptop", "desk"}

\* service_info.get_fullname(): the instance name under the service type.
Fullname(kind, device_name) == <<device_name, AdvServiceType(kind)>>

\* One call on the advertiser: what was called with what, what it returned,
\* and the unregister calls it made on the daemon with the daemon's answers.
AdvCall(op, name, ret, unregistered) ==
    [op |-> op, name |-> name, ret |-> ret, unregistered |-> unregistered]

\* The advertiser after ::new() succeeded: a daemon, no service name.
AdvInit ==
    /\ CoreIdle
    /\ ks = KsOff /\ sc = ScOff /\ cl = ClOff /\ cd = CdOff /\ br = BrOff /\ fp = FpOff /\ pf = PfOff
    /\ \E k \in AdvertiserKinds :
          ad = [AdOff EXCEPT !.kind = k, !.state = "live", !.daemon = "up"]

\* advertise(device_name, port): register the service; keep its full name
\* only when the daemon took it.
advertise(a, device_name, registered) ==
    IF registered
    THEN [a EXCEPT !.registered = @ \cup {Fullname(a.kind, device_name)},
                   !.service_fullname = Fullname(a.kind, device_name),
                   !.log = Append(@, AdvCall("advertise", device_name, "Ok", <<>>))]
    ELSE [a EXCEPT !.log = Append(@, AdvCall("advertise", device_name, "Err", <<>>))]

\* stop() with the name left in place: `if let Some(fullname) = &self.service_fullname`.
advertiser_stop_keeping_name(a, op, unregistered) ==
    IF a.service_fullname # ""
    THEN [a EXCEPT !.registered = IF unregistered THEN @ \ {a.service_fullname} ELSE @,
                   !.log = Append(@, AdvCall(op, "", "Ok", <<[fullname |-> a.service_fullname, ok |-> unregistered]>>))]
    ELSE [a EXCEPT !.log = Append(@, AdvCall(op, "", "Ok", <<>>))]

\* stop(): take() the name; if there was one, ask the daemon to unregister it
\* and ignore what the daemon answers; Ok(()).
advertiser_stop(a, op, unregistered) ==
    IF a.service_fullname # ""
    THEN [a EXCEPT !.service_fullname = "",
                   !.registered = IF unregistered THEN @ \ {a.service_fullname} ELSE @,
                   !.log = Append(@, AdvCall(op, "", "Ok", <<[fullname |-> a.service_fullname, ok |-> unregistered]>>))]
    ELSE [a EXCEPT !.log = Append(@, AdvCall(op, "", "Ok", <<>>))]

Adv_Advertise ==
    /\ ad.state = "live" /\ Len(ad.log) < MaxAdvCalls
    /\ \E n \in AdvNames, registered \in BOOLEAN :
          /\ registered => ad.daemon = "up"
          /\ ad' = advertise(ad, n, registered)
    /\ UNCHANGED <<coreVars, notAd>>

Adv_Stop ==
    /\ ad.state = "live" /\ Len(ad.log) < MaxAdvCalls
    /\ \E unregistered \in BOOLEAN :
          /\ unregistered => ad.daemon = "up"
          /\ ad' = advertiser_stop(ad, "stop", unregistered)
    /\ UNCHANGED <<coreVars, notAd>>

\* Drop: `let _ = self.stop();`, then the daemon handle goes.
Adv_Drop ==
    /\ ad.state = "live"
    /\ \E unregistered \in BOOLEAN :
          /\ unregistered => ad.daemon = "up"
          /\ ad' = [advertiser_stop(ad, "drop", unregistered) EXCEPT !.state = "dropped"]
    /\ UNCHANGED <<coreVars, notAd>>

\* The daemon is shut down under the advertiser: its calls fail from now on.
Adv_DaemonShutdown ==
    /\ ad.state = "live" /\ ad.daemon = "up"
    /\ ad' = [ad EXCEPT !.daemon = "down", !.registered = {}]
    /\ UNCHANGED <<coreVars, notAd>>

AdvNext == Adv_Advertise \/ Adv_Stop \/ Adv_Drop \/ Adv_DaemonShutdown

AdvSpec == AdvInit /\ [][AdvNext]_vars

\* --------------------------------------------------------- ServiceBrowser
\* Full names of the service instances the daemon reports: two instances.
BrNames == { "laptop (host-a)._connecto._tcp.local.", "desk (host-a)._connecto._tcp.local." }
\* Addresses an instance resolves to.
BrAddrs == {1, 2}

BrHostname(addresses) == IF 1 \in addresses THEN "host-a.local." ELSE "host-b.local."

\* mdns_sd::ServiceEvent, as far as browse() tells the events apart.
ServiceResolved(fullname, addresses) ==
    [ty |-> "ServiceResolved", fullname |-> fullname, hostname |-> BrHostname(addresses),
     addresses |-> addresses, port |-> ScanPort]
ServiceRemoved(fullname) == [ty |-> "ServiceRemoved", fullname |-> fullname]
ServiceEvents ==
    { ServiceResolved(n, a) : n \in BrNames, a \in (SUBSET BrAddrs) \ {{}} }
        \cup { ServiceRemoved(n) : n \in BrNames }
        \cup { [ty |-> t] : t \in {"SearchStarted", "SearchStopped", "ServiceFound"} }

\* DiscoveryEvent
DeviceFound(device) == [ty |-> "DeviceFound", device |-> device]
DeviceLost(fullname) == [ty |-> "DeviceLost", fullname |-> fullname]

\* The browser after ServiceBrowser::new() succeeded and scan_for_duration
\* was called on it.
BrowseInit ==
    /\ CoreIdle
    /\ ks = KsOff /\ sc = ScOff /\ cl = ClOff /\ cd = CdOff /\ ad = AdOff
    /\ fp = FpOff /\ pf = PfOff
    /\ br = [BrOff EXCEPT !.pc = "Browse"]

\* get_devices(): the values of the map.
get_devices(b) == { b.devices[n] : n \in DOMAIN b.devices }

\* devs.insert(key, device) and devs.remove(key)
MapInsert(devs, key, device) == [n \in DOMAIN devs \cup {key} |-> IF n = key THEN device ELSE devs[n]]
MapRemove(devs, key) == [n \in DOMAIN devs \ {key} |-> devs[n]]

\* tx.blocking_send(event): the event is queued unless the receiver is gone.
BlockingSend(b, event) ==
    IF b.pc = "Select" THEN [b EXCEPT !.rx = Append(@, event)] ELSE b

\* let mut rx = self.browse()?; let timeout = sleep(duration);
\* browse() starts the daemon's search and spawns the thread.
Scan_Browse ==
    /\ br.pc = "Browse"
    /\ \/ br' = [br EXCEPT !.pc = "Select", !.dopen = TRUE, !.thread = "running",
                           !.timer = "running"]
       \/ br' = [br EXCEPT !.pc = "Returned", !.ret = Err("Discovery", "Failed to browse")]
    /\ UNCHANGED <<coreVars, notBr>>

\* The daemon puts an event on the channel browse() got from it; after
\* SearchStopped it sends nothing more.
Daemon_Event ==
    /\ br.dopen /\ br.emitted < MaxMdnsEvents
    /\ \E e \in ServiceEvents :
          br' = [br EXCEPT !.daemon = Append(@, e), !.emitted = @ + 1,
                           !.dopen = (e.ty # "SearchStopped")]
    /\ UNCHANGED <<coreVars, notBr>>

\* The daemon goes away: its end of the channel is closed.
Daemon_Close ==
    /\ br.dopen
    /\ br' = [br EXCEPT !.dopen = FALSE]
    /\ UNCHANGED <<coreVars, notBr>>

\* The body of the thread's loop for one event.
OnServiceEvent(b, e) ==
    CASE e.ty = "ServiceResolved" ->
           LET device == DiscoveredDevice(e.fullname, e.hostname, e.addresses, e.port,
                                          e.fullname)
           IN  BlockingSend([b EXCEPT !.devices = MapInsert(@, device.instance_name, device)],
                            DeviceFound(device))
      [] e.ty = "ServiceRemoved" ->
           BlockingSend([b EXCEPT !.devices = MapRemove(@, e.fullname)], DeviceLost(e.fullname))
      [] e.ty = "SearchStarted" -> BlockingSend(b, [ty |-> "SearchStarted"])
      [] e.ty = "SearchStopped" ->
           [BlockingSend(b, [ty |-> "SearchStopped"]) EXCEPT !.thread = "ended"]
      [] OTHER -> b

\* while let Ok(event) = receiver.recv() { .. }: the thread takes the next
\* event, or ends when the channel is closed and empty.
Thread_Recv ==
    /\ br.thread = "running"
    /\ \/ /\ br.daemon # <<>>
          /\ br' = OnServiceEvent([br EXCEPT !.daemon = Tail(@),
                                             !.handled = Append(@, Head(br.daemon))],
                                  Head(br.daemon))
       \/ /\ br.daemon = <<>> /\ ~br.dopen
          /\ br' = [br EXCEPT !.thread = "ended"]
    /\ UNCHANGED <<coreVars, notBr>>

\* The sleep of `duration` elapses.
Scan_TimerElapse ==
    /\ br.timer = "running"
    /\ br' = [br EXCEPT !.timer = "elapsed"]
    /\ UNCHANGED <<coreVars, notBr>>

\* break; Ok(self.get_devices()): rx is dropped with the call's frame.
ScanReturn(b, event) ==
    [b EXCEPT !.pc = "Returned", !.event = event, !.rx = <<>>,
              !.ret = [st |-> "ok", devices |-> get_devices(b)]]

\* The match on what rx.recv() gave, with SearchStopped under `_ => {}`.
OnDiscoveryEventNoStop(b, event) ==
    IF event = "None" THEN ScanReturn(b, event) ELSE [b EXCEPT !.event = event]

\* The match on what rx.recv() gave.
OnDiscoveryEvent(b, event) ==
    IF event \in {"SearchStopped", "None"}
    THEN ScanReturn(b, event)
    ELSE [b EXCEPT !.event = event]

\* select!: the timeout branch
Scan_Timeout ==
    /\ br.pc = "Select" /\ br.timer = "elapsed"
    /\ br' = ScanReturn(br, "timeout")
    /\ UNCHANGED <<coreVars, notBr>>

\* select!: the rx.recv() branch: the next event, or None when the thread
\* has ended and the channel is empty.
Scan_Recv ==
    /\ br.pc = "Select"
    /\ \/ /\ br.rx # <<>>
          /\ br' = OnDiscoveryEvent([br EXCEPT !.rx = Tail(@)], Head(br.rx).ty)
       \/ /\ br.rx = <<>> /\ br.thread = "ended"
          /\ br' = OnDiscoveryEvent(br, "None")
    /\ UNCHANGED <<coreVars, notBr>>

scan_for_duration == Scan_Browse \/ Scan_Timeout \/ Scan_Recv

BrowseNext ==
    \/ scan_for_duration
    \/ Scan_TimerElapse
    \/ Thread_Recv
    \/ Daemon_Event
    \/ Daemon_Close

BrowseSpec == BrowseInit /\ [][BrowseNext]_vars

\* The timer fires, and the select! loop and the thread run when they can.
BrowseFair ==
    /\ WF_vars(Scan_Browse) /\ WF_vars(Scan_Timeout) /\ WF_vars(Scan_Recv)
    /\ WF_vars(Scan_TimerElapse)
    /\ WF_vars(Thread_Recv)

FairBrowseSpec == BrowseSpec /\ BrowseFair

\* ------------------------------------------------------ SyncBrowser::find_peers
\* Strings of this part are sequences of characters.
SyncTypeText ==
    <<"_", "c", "o", "n", "n", "e", "c", "t", "o", "-", "s", "y", "n", "c", ".",
      "_", "t", "c", "p", ".", "l", "o", "c", "a", "l", ".">>

\* Device names and host names of the machines on the network.
FpNames == { <<"m", "a", "c">>, <<"m", "a", "c", "2">>, <<"p", "c">>, <<"t", "c", "p">> }
FpHosts == { <<"h", "1">>, <<"p", "c", "9">> }

\* SyncAdvertiser::advertise: the instance "{device_name} ({hostname})" under
\* the service type.
SyncFullname(device_name, hostname) ==
    device_name \o <<" ", "(">> \o hostname \o <<")", ".">> \o SyncTypeText

\* What the daemon resolves: the service of a device on a host.
SyncResolved(device_name, hostname) ==
    [ty |-> "ServiceResolved", device_name |-> device_name, hostname |-> hostname,
     fullname |-> SyncFullname(device_name, hostname), has_address |-> TRUE]
FpEvents ==
    { SyncResolved(n, h) : n \in FpNames, h \in FpHosts }
        \cup { [ty |-> t] : t \in {"SearchStopped", "ServiceFound"} }

SyncPeer(info) ==
    [device_name |-> info.fullname, has_address |-> info.has_address,
     instance_name |-> info.fullname]

\* find_peers(our_device_name, timeout, peer_tx) after browse() succeeded and
\* the thread was spawned.
FindPeersInit ==
    /\ CoreIdle
    /\ ks = KsOff /\ sc = ScOff /\ cl = ClOff /\ cd = CdOff /\ ad = AdOff /\ br = BrOff
    /\ pf = PfOff
    /\ \E n \in FpNames, h \in FpHosts :
          fp = [FpOff EXCEPT !.pc = "Loop", !.our_name = n, !.our_host = h,
                             !.dopen = TRUE, !.rx_open = TRUE]

\* The daemon puts an event on the browse channel.
FP_DaemonEvent ==
    /\ fp.dopen /\ fp.emitted < MaxPeerEvents
    /\ \E e \in FpEvents :
          fp' = [fp EXCEPT !.daemon = Append(@, e), !.emitted = @ + 1]
    /\ UNCHANGED <<coreVars, notFp>>

\* The daemon goes away.
FP_DaemonClose ==
    /\ fp.dopen
    /\ fp' = [fp EXCEPT !.dopen = FALSE]
    /\ UNCHANGED <<coreVars, notFp>>

\* run has returned: peer_found_rx is dropped.
FP_ReceiverDrop ==
    /\ fp.rx_open
    /\ fp' = [fp EXCEPT !.rx_open = FALSE]
    /\ UNCHANGED <<coreVars, notFp>>

\* `if device_name.contains(&our_name)`: skip our own service.
IsOwnService(fullname, our_name) == contains(fullname, our_name)

\* The body of the loop for ServiceResolved: skip, or build the peer and send
\* it; a failed send ends the loop.
OnPeerResolved(f, info) ==
    IF IsOwnService(info.fullname, f.our_name)
    THEN [f EXCEPT !.handled = Append(@, [info |-> info, did |-> "skipped"])]
    ELSE IF f.rx_open
    THEN [f EXCEPT !.handled = Append(@, [info |-> info, did |-> "forwarded"]),
                   !.peers = Append(@, SyncPeer(info))]
    ELSE [f EXCEPT !.handled = Append(@, [info |-> info, did |-> "send failed"]),
                   !.pc = "Ended"]

\* receiver.recv_timeout(100ms) in the thread: an event, or Disconnected.
FP_Recv ==
    /\ fp.pc = "Loop"
    /\ \/ /\ fp.daemon # <<>>
          /\ LET e == Head(fp.daemon)
                 f == [fp EXCEPT !.daemon = Tail(@)]
             IN  fp' = CASE e.ty = "ServiceResolved" -> OnPeerResolved(f, e)
                         [] e.ty = "SearchStopped" -> [f EXCEPT !.pc = "Ended"]
                         [] OTHER -> f
       \/ /\ fp.daemon = <<>> /\ ~fp.dopen
          /\ fp' = [fp EXCEPT !.pc = "Ended"]
    /\ UNCHANGED <<coreVars, notFp>>

\* while Instant::now() < deadline: the deadline has passed.
FP_Deadline ==
    /\ fp.pc = "Loop"
    /\ fp' = [fp EXCEPT !.pc = "Ended"]
    /\ UNCHANGED <<coreVars, notFp>>

find_peers == FP_Recv \/ FP_Deadline

FindPeersNext == find_peers \/ FP_DaemonEvent \/ FP_DaemonClose \/ FP_ReceiverDrop

FindPeersSpec == FindPeersInit /\ [][FindPeersNext]_vars

\* ------------------------------------------------------- primary_address
\* IpAddr: an address of one of the two families.
IpV4(a) == [family |-> "V4", a |-> a]
IpV6(a) == [family |-> "V6", a |-> a]
is_ipv4(addr) == addr.family = "V4"

\* The address lists given to primary_address: up to MaxAddrs addresses.
IpAddrs == { IpV4("192.168.1.100"), IpV4("10.0.0.5"), IpV6("::1"), IpV6("fe80::1") }
AddrLists == UNION { [1..n -> IpAddrs] : n \in 0..MaxAddrs }

\* iter().find(|addr| addr.is_ipv4()): the first element for which the
\* predicate holds, in list order.
RECURSIVE find_is_ipv4(_)
find_is_ipv4(s) ==
    IF s = <<>> THEN None
    ELSE IF is_ipv4(Head(s)) THEN Some(Head(s))
    ELSE find_is_ipv4(Tail(s))

\* first()
first(s) == IF s = <<>> THEN None ELSE Some(s[1])

\* Option::or
or(a, b) == IF a # None THEN a ELSE b

\* primary_address without the preference: the first address.
primary_address_first(addresses) == first(addresses)

\* self.addresses.iter().find(|addr| addr.is_ipv4()).or(self.addresses.first()).copied()
primary_address(addresses) == or(find_is_ipv4(addresses), first(addresses))

\* A DiscoveredDevice or a SyncPeer with some address list.
AddrInit ==
    /\ CoreIdle
    /\ ks = KsOff /\ sc = ScOff /\ cl = ClOff /\ cd = CdOff /\ ad = AdOff /\ br = BrOff
    /\ fp = FpOff
    /\ \E of \in {"DiscoveredDevice", "SyncPeer"}, addresses \in AddrLists :
          pf = [fn |-> "primary_address", of |-> of, arg |-> addresses, res |-> Pending]

\* A call of primary_address on the device or peer.
PrimaryAddress ==
    /\ pf.fn = "primary_address" /\ pf.res = Pending
    /\ pf' = [pf EXCEPT !.res = [st |-> "ok", value |-> primary_address(pf.arg)]]
    /\ UNCHANGED <<coreVars, notPf>>

AddrNext == PrimaryAddress

AddrSpec == AddrInit /\ [][AddrNext]_vars

\* ------------------------------------------- Message::to_json / from_json
\* The wire form is a sequence of characters. NL, Sp, Zero.. are as above; a
\* word of letters, digits and underscores (a field name, a variant name,
\* null, true, false) is one element, WordBase + its place in Words.
Quote == 34
Backslash == 92
Comma == 44
Colon == 58
LBrace == 123
RBrace == 125
LetterA == 97
LetterN == 110
WordBase == 200

Words ==
    <<"type", "version", "device_name", "verification_code", "public_key", "comment",
      "message", "code", "ssh_user", "initiator_priority", "key_comment", "accept_sync",
      "success", "Hello", "HelloAck", "KeyExchange", "KeyAccepted", "Error",
      "PairingComplete", "SyncHello", "SyncHelloAck", "SyncComplete", "null", "true", "false">>
Word(w) == WordBase + (CHOOSE i \in 1..Len(Words) : Words[i] = w)
IsWord(ch) == ch \in (WordBase + 1)..(WordBase + Len(Words))
WordOf(ch) == Words[ch - WordBase]

\* #[serde(tag = "type")] enum Message: the fields of each variant, in order.
\* The sync variants are those the sync module builds and matches.
Field(name, ty) == [name |-> name, ty |-> ty]
Variants ==
    [ Hello |-> <<Field("version", "u32"), Field("device_name", "String")>>,
      HelloAck |-> <<Field("version", "u32"), Field("device_name", "String"),
                     Field("verification_code", "Option<String>")>>,
      KeyExchange |-> <<Field("public_key", "String"), Field("comment", "String")>>,
      KeyAccepted |-> <<Field("message", "String")>>,
      Error |-> <<Field("code", "u32"), Field("message", "String")>>,
      PairingComplete |-> <<Field("ssh_user", "String")>>,
      SyncHello |-> <<Field("version", "u32"), Field("device_name", "String"),
                      Field("initiator_priority", "u64"), Field("public_key", "String"),
                      Field("key_comment", "String"), Field("ssh_user", "String")>>,
      SyncHelloAck |-> <<Field("version", "u32"), Field("device_name", "String"),
                         Field("public_key", "String"), Field("key_comment", "String"),
                         Field("ssh_user", "String"), Field("accept_sync", "bool")>>,
      SyncComplete |-> <<Field("success", "bool"), Field("message", "String")>> ]

\* ---- serde_json::to_string
\* A string written without escapes.
JsonStringRaw(s) == <<Quote>> \o s \o <<Quote>>

EscapeChar(ch) ==
    CASE ch = Quote -> <<Backslash, Quote>>
      [] ch = Backslash -> <<Backslash, Backslash>>
      [] ch = NL -> <<Backslash, LetterN>>
      [] OTHER -> <<ch>>
RECURSIVE Escaped(_)
Escaped(s) == IF s = <<>> THEN <<>> ELSE EscapeChar(Head(s)) \o Escaped(Tail(s))
JsonString(s) == <<Quote>> \o Escaped(s) \o <<Quote>>

JsonValue(ty, v) ==
    CASE ty \in {"u32", "u64"} -> Dec(v)
      [] ty = "String" -> JsonString(v)
      [] ty = "Option<String>" -> IF v = None THEN <<Word("null")>> ELSE JsonString(v[1])
      [] ty = "bool" -> IF v THEN <<Word("true")>> ELSE <<Word("false")>>

JsonMember(name, text) == <<Quote, Word(name), Quote, Colon>> \o text

RECURSIVE JsonFields(_, _)
JsonFields(m, fields) ==
    IF fields = <<>> THEN <<>>
    ELSE <<Comma>> \o JsonMember(Head(fields).name, JsonValue(Head(fields).ty, m[Head(fields).name]))
           \o JsonFields(m, Tail(fields))

\* to_json: serde_json::to_string(self), then format!("{}\n", json)
to_json(m) ==
    <<LBrace>> \o JsonMember("type", <<Quote, Word(m.type), Quote>>)
        \o JsonFields(m, Variants[m.type]) \o <<RBrace>> \o <<NL>>

\* ---- serde_json::from_str
IsWs(ch) == ch \in {Sp, NL}
RECURSIVE TrimStart(_)
TrimStart(s) == IF s # <<>> /\ IsWs(Head(s)) THEN TrimStart(Tail(s)) ELSE s
RECURSIVE TrimEnd(_)
TrimEnd(s) == IF s # <<>> /\ IsWs(s[Len(s)]) THEN TrimEnd(SubSeq(s, 1, Len(s) - 1)) ELSE s
trim(s) == TrimEnd(TrimStart(s))

Fail == [ok |-> FALSE]
Parsed(k, v, rest) == [ok |-> TRUE, k |-> k, v |-> v, rest |-> rest]

\* The rest of a string after its opening quote: up to the closing quote,
\* with the escapes undone; a raw control character is an error.
RECURSIVE ScanString(_, _)
ScanString(s, acc) ==
    IF s = <<>> THEN Fail
    ELSE IF Head(s) = Quote THEN Parsed("str", acc, Tail(s))
    ELSE IF Head(s) = NL THEN Fail
    ELSE IF Head(s) = Backslash
    THEN IF Len(s) < 2 THEN Fail
         ELSE IF s[2] \in {Quote, Backslash} THEN ScanString(Tail(Tail(s)), Append(acc, s[2]))
         ELSE IF s[2] = LetterN THEN ScanString(Tail(Tail(s)), Append(acc, NL))
         ELSE Fail
    ELSE ScanString(Tail(s), Append(acc, Head(s)))

IsDigit(ch) == ch \in Zero..(Zero + 9)
RECURSIVE DigitsPrefix(_)
DigitsPrefix(s) ==
    IF s # <<>> /\ IsDigit(Head(s)) THEN <<Head(s)>> \o DigitsPrefix(Tail(s)) ELSE <<>>

\* A value: a string, a number, null, true or false.
ParseValue(s0) ==
    LET s == TrimStart(s0) IN
    IF s = <<>> THEN Fail
    ELSE IF Head(s) = Quote THEN ScanString(Tail(s), <<>>)
    ELSE IF IsDigit(Head(s))
    THEN LET d == DigitsPrefix(s)
             n == ParseDigits(d, 0, MaxWireInt)
         IN  IF n < 0 \/ (Len(d) > 1 /\ Head(d) = Zero) THEN Fail
             ELSE Parsed("num", n, SubSeq(s, Len(d) + 1, Len(s)))
    ELSE IF Head(s) = Word("null") THEN Parsed("null", 0, Tail(s))
    ELSE IF Head(s) = Word("true") THEN Parsed("bool", TRUE, Tail(s))
    ELSE IF Head(s) = Word("false") THEN Parsed("bool", FALSE, Tail(s))
    ELSE Fail

\* The members of an object after its opening brace: `acc` maps the names
\* read so far to their values.
RECURSIVE ParseMembers(_, _)
ParseMembers(s0, acc) ==
    LET s == TrimStart(s0) IN
    IF s = <<>> \/ Head(s) # Quote THEN Fail
    ELSE LET key == ScanString(Tail(s), <<>>) IN
         IF ~key.ok THEN Fail
         ELSE LET t == TrimStart(key.rest) IN
              IF t = <<>> \/ Head(t) # Colon THEN Fail
              ELSE LET val == ParseValue(Tail(t)) IN
                   IF ~val.ok THEN Fail
                   ELSE LET u == TrimStart(val.rest)
                            more == Append(acc, [key |-> key.v, val |-> val])
                        IN  IF u = <<>> THEN Fail
                            ELSE IF Head(u) = Comma THEN ParseMembers(Tail(u), more)
                            ELSE IF Head(u) = RBrace
                            THEN [ok |-> TRUE, members |-> more, rest |-> Tail(u)]
                            ELSE Fail

\* The value of the member called `name`, if there is one.
Member(members, name) ==
    LET hits == { i \in 1..Len(members) : members[i].key = <<Word(name)>> }
    IN  IF hits = {} THEN Fail ELSE members[CHOOSE i \in hits : TRUE].val

\* Deserialize one field of type ty from the member found (or not found).
FieldValue(ty, val) ==
    CASE ty \in {"u32", "u64"} ->
           IF val.ok /\ val.k = "num" THEN [ok |-> TRUE, v |-> val.v] ELSE Fail
      [] ty = "String" ->
           IF val.ok /\ val.k = "str" THEN [ok |-> TRUE, v |-> val.v] ELSE Fail
      [] ty = "bool" ->
           IF val.ok /\ val.k = "bool" THEN [ok |-> TRUE, v |-> val.v] ELSE Fail
      [] ty = "Option<String>" ->
           IF ~val.ok \/ val.k = "null" THEN [ok |-> TRUE, v |-> None]
           ELSE IF val.k = "str" THEN [ok |-> TRUE, v |-> Some(val.v)]
           ELSE Fail

\* from_json: serde_json::from_str(s.trim()): an object whose "type" member
\* names a variant and whose other members give the variant's fields.
from_json(text) ==
    LET s == trim(text) IN
    IF s = <<>> \/ Head(s) # LBrace THEN Malformed
    ELSE LET obj == ParseMembers(Tail(s), <<>>) IN
         IF ~obj.ok \/ obj.rest # <<>> THEN Malformed
         ELSE LET tag == Member(obj.members, "type") IN
              IF ~tag.ok \/ tag.k # "str" \/ Len(tag.v) # 1 THEN Malformed
              ELSE IF ~IsWord(tag.v[1]) THEN Malformed
              ELSE IF WordOf(tag.v[1]) \notin DOMAIN Variants THEN Malformed
              ELSE LET variant == WordOf(tag.v[1])
                       fields == Variants[variant]
                       got == [i \in 1..Len(fields) |->
                                 FieldValue(fields[i].ty, Member(obj.members, fields[i].name))]
                   IN  IF \E i \in 1..Len(fields) : ~got[i].ok THEN Malformed
                       ELSE [n \in {"type"} \cup { fields[i].name : i \in 1..Len(fields) } |->
                               IF n = "type" THEN variant
                               ELSE got[CHOOSE i \in 1..Len(fields) : fields[i].name = n].v]

\* ---- the messages serialized
WireChars == {LetterA, Quote, Backslash, NL, Sp, RBrace, Comma}
WireStrings == UNION { [1..n -> WireChars] : n \in 0..MaxWireLen }
FewStrings == { <<>>, <<LetterA>>, <<Quote, Comma>>, <<Backslash, LetterN>>, <<NL, RBrace>> }
WireInts == {0, PROTOCOL_VERSION, MaxWireInt}

WireMessages ==
    { [type |-> "Hello", version |-> v, device_name |-> n] : v \in WireInts, n \in WireStrings }
    \cup { [type |-> "HelloAck", version |-> PROTOCOL_VERSION, device_name |-> n,
            verification_code |-> c] :
             n \in FewStrings, c \in {None} \cup { Some(x) : x \in WireStrings } }
    \cup { [type |-> "KeyExchange", public_key |-> k, comment |-> c] :
             k \in WireStrings, c \in FewStrings }
    \cup { [type |-> "KeyAccepted", message |-> t] : t \in WireStrings }
    \cup { [type |-> "Error", code |-> c, message |-> t] : c \in WireInts, t \in FewStrings }
    \cup { [type |-> "PairingComplete", ssh_user |-> u] : u \in WireStrings }
    \cup { [type |-> "SyncHello", version |-> PROTOCOL_VERSION, device_name |-> n,
            initiator_priority |-> p, public_key |-> k, key_comment |-> <<LetterA>>,
            ssh_user |-> <<LetterA, Sp>>] :
             n \in FewStrings, p \in WireInts, k \in FewStrings }
    \cup { [type |-> "SyncHelloAck", version |-> PROTOCOL_VERSION, device_name |-> n,
            public_key |-> k, key_comment |-> <<>>, ssh_user |-> <<LetterA>>,
            accept_sync |-> a] :
             n \in FewStrings, k \in FewStrings, a \in BOOLEAN }
    \cup { [type |-> "SyncComplete", success |-> b, message |-> t] :
             b \in BOOLEAN, t \in WireStrings }

WireInit ==
    /\ CoreIdle
    /\ ks = KsOff /\ sc = ScOff /\ cl = ClOff /\ cd = CdOff /\ ad = AdOff /\ br = BrOff
    /\ fp = FpOff
    /\ \E m \in WireMessages :
          pf = [fn |-> "to_json", of |-> "Message", arg |-> m, res |-> Pending]

\* m.to_json()
ToJson ==
    /\ pf.fn = "to_json" /\ pf.res = Pending
    /\ pf' = [pf EXCEPT !.res = [st |-> "ok", json |-> to_json(pf.arg), parsed |-> Pending]]
    /\ UNCHANGED <<coreVars, notPf>>

\* Message::from_json(&json)
FromJson ==
    /\ pf.fn = "to_json" /\ pf.res # Pending /\ pf.res.parsed = Pending
    /\ pf' = [pf EXCEPT !.res.parsed = from_json(pf.res.json)]
    /\ UNCHANGED <<coreVars, notPf>>

WireNext == ToJson \/ FromJson

WireSpec == WireInit /\ [][WireNext]_vars

\* ----------------------------------------------------------- scan_ips: the window
\* .buffer_unordered(100)
ScanWindow == 100

\* The lengths of the list scan_ips is called with.
CandidateCounts == {3, ScanWindow, MaxCandidates}

\* The stream of scan_ips: next is the position stream::iter(ips) is at, flying
\* the number of probe_host futures in the buffer beside the watched one, w the
\* watched position with its state and the number of times it was probed,
\* results the length of the collected Vec.
BufferInit ==
    /\ CoreIdle
    /\ ks = KsOff /\ sc = ScOff /\ cl = ClOff /\ cd = CdOff /\ ad = AdOff /\ br = BrOff
    /\ fp = FpOff
    /\ \E n \in CandidateCounts : \E w \in {i \in Watched : i <= n} :
          pf = [fn |-> "scan_ips", of |-> "SubnetScanner", arg |-> [ips |-> n, w |-> w],
                res |-> [st |-> "polling", next |-> 1, flying |-> 0, wst |-> "queued",
                         probed |-> 0, results |-> 0]]

\* The futures in the buffer.
InFlight == pf.res.flying + (IF pf.res.wst = "flying" THEN 1 ELSE 0)

\* A variant of the buffer that takes the next future whenever there is one.
Buffer_SpawnUnbounded ==
    /\ pf.fn = "scan_ips" /\ pf.res.st = "polling"
    /\ pf.res.next <= pf.arg.ips
    /\ pf' = [pf EXCEPT !.res.next = @ + 1,
                        !.res.flying = IF pf.res.next = pf.arg.w THEN @ ELSE @ + 1,
                        !.res.wst = IF pf.res.next = pf.arg.w THEN "flying" ELSE @,
                        !.res.probed = IF pf.res.next = pf.arg.w THEN @ + 1 ELSE @]
    /\ UNCHANGED <<coreVars, notPf>>

\* BufferUnordered::poll_next: while the buffer holds fewer than 100 futures,
\* take the next address from the iterator and start its probe_host.
Buffer_Spawn ==
    /\ pf.fn = "scan_ips" /\ pf.res.st = "polling"
    /\ pf.res.next <= pf.arg.ips /\ InFlight < ScanWindow
    /\ pf' = [pf EXCEPT !.res.next = @ + 1,
                        !.res.flying = IF pf.res.next = pf.arg.w THEN @ ELSE @ + 1,
                        !.res.wst = IF pf.res.next = pf.arg.w THEN "flying" ELSE @,
                        !.res.probed = IF pf.res.next = pf.arg.w THEN @ + 1 ELSE @]
    /\ UNCHANGED <<coreVars, notPf>>

\* One of the futures in the buffer completes, in any order; collect pushes
\* its Option<DiscoveredDevice>.
Buffer_Complete ==
    /\ pf.fn = "scan_ips" /\ pf.res.st = "polling"
    /\ \/ /\ pf.res.flying > 0
          /\ pf' = [pf EXCEPT !.res.flying = @ - 1, !.res.results = @ + 1]
       \/ /\ pf.res.wst = "flying"
          /\ pf' = [pf EXCEPT !.res.wst = "done", !.res.results = @ + 1]
    /\ UNCHANGED <<coreVars, notPf>>

\* The iterator is exhausted and the buffer empty: the stream ends, collect
\* returns and scan_ips returns the flattened results.
Buffer_Collect ==
    /\ pf.fn = "scan_ips" /\ pf.res.st = "polling"
    /\ pf.res.next > pf.arg.ips /\ InFlight = 0
    /\ pf' = [pf EXCEPT !.res.st = "returned"]
    /\ UNCHANGED <<coreVars, notPf>>

BufferNext == Buffer_Spawn \/ Buffer_Complete \/ Buffer_Collect

BufferSpec == BufferInit /\ [][BufferNext]_vars

\* ----------------------------------------------------------- scan: the candidates
\* The addresses get_local_addresses may report: two of one /24, three of the
\* 10.x range of which two share a /22, two with the third octet in 252..255,
\* a loopback and a link-local one.
LocalAddrs ==
    { <<192, 168, 1, 10>>, <<192, 168, 1, 20>>, <<172, 16, 0, 1>>,
      <<10, 0, 5, 7>>, <<10, 0, 6, 9>>, <<10, 9, 8, 7>>,
      <<10, 0, 252, 3>>, <<10, 1, 255, 1>>,
      <<127, 0, 0, 1>>, <<169, 254, 1, 1>> }

\* The lists of at most MaxLocal of them.
MaxLocal == 2
LocalLists == UNION { [1..n -> LocalAddrs] : n \in 0..MaxLocal }

\* How the build treats an overflowing u8 addition: with overflow checks it
\* panics, without them it wraps.
Builds == {"debug", "release"}

U8 == 256

\* Ipv4Addr::is_loopback, Ipv4Addr::is_link_local
is_loopback(ip) == ip[1] = 127
is_link_local(ip) == ip[1] = 169 /\ ip[2] = 254

\* local_ips.contains(&ip)
Contains(list, x) == \E i \in 1..Len(list) : list[i] = x

\* The filter of scan on what get_local_addresses returned.
local_ips_of(addrs) == SelectSeq(addrs, LAMBDA ip : ~is_loopback(ip) /\ ~is_link_local(ip))

\* octets[2] & 0xFC
base_third(octet) == octet - (octet % 4)

\* for last in 1..255u8 { if !local_ips.contains(&ip) { push(ip) } }
Block24(a, b, third, local_ips) ==
    SelectSeq([last \in 1..254 |-> <<a, b, third, last>>], LAMBDA ip : ~Contains(local_ips, ip))

\* for third in from..to { .. }: the blocks of an exclusive u8 range, empty
\* when to <= from.
RECURSIVE Blocks(_, _, _, _, _)
Blocks(a, b, from, to, local_ips) ==
    IF from >= to THEN <<>>
    ELSE Block24(a, b, from, local_ips) \o Blocks(a, b, from + 1, to, local_ips)

\* One turn of the loop of scan over local_ips. acc holds all_ips_to_scan and
\* scanned_subnets, or the panic of an overflow check.
ScanOne(acc, ip, local_ips, build) ==
    LET is_vpn_like == ip[1] = 10
        base == base_third(ip[3])
        key == IF is_vpn_like THEN <<ip[1], ip[2], base, 22>> ELSE <<ip[1], ip[2], ip[3], 24>>
    IN
    IF acc.st # "ok" \/ key \in acc.scanned_subnets THEN acc
    ELSE IF is_vpn_like
    THEN IF base + 4 >= U8 /\ build = "debug"
         THEN [acc EXCEPT !.st = "panic", !.scanned_subnets = @ \cup {key}]
         ELSE [acc EXCEPT !.scanned_subnets = @ \cup {key},
                          !.all_ips_to_scan =
                              @ \o Blocks(ip[1], ip[2], base, (base + 4) % U8, local_ips)]
    ELSE [acc EXCEPT !.scanned_subnets = @ \cup {key},
                     !.all_ips_to_scan = @ \o Block24(ip[1], ip[2], ip[3], local_ips)]

RECURSIVE ScanLoop(_, _, _, _)
ScanLoop(acc, i, local_ips, build) ==
    IF i > Len(local_ips) THEN acc
    ELSE ScanLoop(ScanOne(acc, local_ips[i], local_ips, build), i + 1, local_ips, build)

\* scan up to its call of scan_ips: the list it hands over.
scan_candidates(addrs, build) ==
    LET local_ips == local_ips_of(addrs) IN
    IF local_ips = <<>> THEN [st |-> "ok", all_ips_to_scan |-> <<>>, scanned_subnets |-> {}]
    ELSE ScanLoop([st |-> "ok", all_ips_to_scan |-> <<>>, scanned_subnets |-> {}],
                  1, local_ips, build)

CandInit ==
    /\ CoreIdle
    /\ ks = KsOff /\ sc = ScOff /\ cl = ClOff /\ cd = CdOff /\ ad = AdOff /\ br = BrOff
    /\ fp = FpOff
    /\ \E addrs \in LocalLists, build \in Builds :
          pf = [fn |-> "scan", of |-> "SubnetScanner", arg |-> [addrs |-> addrs, build |-> build],
                res |-> Pending]

\* scanner.scan(), up to scan_ips
ScanCandidates ==
    /\ pf.fn = "scan" /\ pf.res = Pending
    /\ pf' = [pf EXCEPT !.res = scan_candidates(pf.arg.addrs, pf.arg.build)]
    /\ UNCHANGED <<coreVars, notPf>>

CandNext == ScanCandidates

CandSpec == CandInit /\ [][CandNext]_vars

\* ------------------------------------- the advertiser in run and in listen
\* The two callers that own an advertiser as a local: the listen command
\* (run_with_adhoc, with or without --continuous) and SyncHandler::run, which
\* the sync command runs under a select! with Ctrl+C. pf.res holds the
\* position in the caller, the advertiser, and the way out once it is left.
OwnerCalls ==
    { [fn |-> "run_with_adhoc", of |-> "ServiceAdvertiser", arg |-> [continuous |-> c]] :
          c \in BOOLEAN }
      \cup { [fn |-> "run", of |-> "SyncAdvertiser", arg |-> [continuous |-> FALSE]] }

OwnerName == "laptop"

OwnerInit ==
    /\ CoreIdle
    /\ ks = KsOff /\ sc = ScOff /\ cl = ClOff /\ cd = CdOff /\ ad = AdOff /\ br = BrOff
    /\ fp = FpOff
    /\ \E call \in OwnerCalls :
          pf = [fn |-> call.fn, of |-> call.of, arg |-> call.arg,
                res |-> [pc |-> "New", a |-> AdOff, out |-> ""]]

OwnerAt(at) == pf.fn \in {"run_with_adhoc", "run"} /\ pf.res.pc = at

\* A variant of the drop of the advertiser with no Drop implementation.
DropAdvertiserNoStop(a, unregistered) == [a EXCEPT !.state = "dropped"]

\* impl Drop: `let _ = self.stop();`
DropAdvertiser(a, unregistered) ==
    [advertiser_stop(a, "drop", unregistered) EXCEPT !.state = "dropped"]

\* The caller is left by way `out`: its locals are dropped, the advertiser
\* among them if it was made.
Owner_Leave(out) ==
    \E unregistered \in BOOLEAN :
        /\ unregistered => pf.res.a.daemon = "up"
        /\ pf' = [pf EXCEPT !.res.pc = "Left", !.res.out = out,
                            !.res.a = IF pf.res.a.state = "live"
                                      THEN DropAdvertiser(pf.res.a, unregistered) ELSE @]

\* ServiceAdvertiser::new()? / SyncAdvertiser::new()?
Owner_New ==
    /\ OwnerAt("New")
    /\ \/ pf' = [pf EXCEPT !.res.pc = "Advertise",
                            !.res.a = [AdOff EXCEPT !.kind = pf.of, !.state = "live",
                                                    !.daemon = "up"]]
       \/ Owner_Leave("error")
    /\ UNCHANGED <<coreVars, notPf>>

\* advertiser.advertise(&device_name, port)?
Owner_Advertise ==
    /\ OwnerAt("Advertise")
    /\ \/ /\ pf.res.a.daemon = "up"
          /\ pf' = [pf EXCEPT !.res.pc = "Setup", !.res.a = advertise(@, OwnerName, TRUE)]
       \/ /\ pf' = [pf EXCEPT !.res.pc = "Failed", !.res.a = advertise(@, OwnerName, FALSE)]
    /\ UNCHANGED <<coreVars, notPf>>

\* The `?` after a call that returned Err.
Owner_Propagate ==
    /\ OwnerAt("Failed")
    /\ Owner_Leave("error")
    /\ UNCHANGED <<coreVars, notPf>>

\* listen: server.listen(port).await? ; run: SyncBrowser::new()?
Owner_Setup ==
    /\ OwnerAt("Setup")
    /\ \/ pf' = [pf EXCEPT !.res.pc = "Serve"]
       \/ pf' = [pf EXCEPT !.res.pc = "Failed"]
    /\ UNCHANGED <<coreVars, notPf>>

\* listen --continuous: select! { server.run(event_tx), ctrl_c() }, either
\* branch falls through to the clean-up. listen: server.handle_one(event_tx)
\* .await?. run: the loop ends with a result, a sync, an error or the timeout.
Owner_Serve ==
    /\ OwnerAt("Serve")
    /\ \E how \in {"ok", "error", "timeout", "ctrl_c"} :
          /\ how = "timeout" => pf.fn = "run"
          /\ how = "ctrl_c" => pf.arg.continuous
          /\ pf' = [pf EXCEPT !.res.pc =
                        IF pf.fn = "run_with_adhoc" /\ ~pf.arg.continuous /\ how = "error"
                        THEN "Failed" ELSE "Stop",
                            !.res.out = how]
    /\ UNCHANGED <<coreVars, notPf>>

\* advertiser.stop()?, and the caller returns.
Owner_Stop ==
    /\ OwnerAt("Stop")
    /\ \E unregistered \in BOOLEAN :
          /\ unregistered => pf.res.a.daemon = "up"
          /\ pf' = [pf EXCEPT !.res.pc = "Return",
                              !.res.a = advertiser_stop(@, "stop", unregistered)]
    /\ UNCHANGED <<coreVars, notPf>>

Owner_Return ==
    /\ OwnerAt("Return")
    /\ Owner_Leave(pf.res.out)
    /\ UNCHANGED <<coreVars, notPf>>

\* The sync command's select! takes the Ctrl+C branch: the future of run is
\* dropped where it waits.
Owner_Cancel ==
    /\ pf.fn = "run" /\ pf.res.pc \in {"Setup", "Serve"}
    /\ Owner_Leave("cancelled")
    /\ UNCHANGED <<coreVars, notPf>>

\* The daemon is shut down under the advertiser.
Owner_DaemonShutdown ==
    /\ pf.fn \in {"run_with_adhoc", "run"} /\ pf.res.a.state = "live" /\ pf.res.a.daemon = "up"
    /\ pf' = [pf EXCEPT !.res.a.daemon = "down", !.res.a.registered = {}]
    /\ UNCHANGED <<coreVars, notPf>>

OwnerNext ==
    \/ Owner_New \/ Owner_Advertise \/ Owner_Propagate \/ Owner_Setup \/ Owner_Serve
    \/ Owner_Stop \/ Owner_Return \/ Owner_Cancel \/ Owner_DaemonShutdown

OwnerSpec == OwnerInit /\ [][OwnerNext]_vars

\* ----------------------------------------------------------- specification
Init == PairInit \/ SyncInit

ServerStep == Listen \/ Serve \/ EvStarted \/ Accept \/ EvClientConnected \/ HandleOneReturn

PairNext ==
    \/ ServerStep
    \/ AcceptFail
    \/ \E c \in Conns : handle_client(c)
    \/ \E c \in Conns : pair(c)
    \/ \E c \in Conns : identify_device(c)
    \/ \E c \in Conns : Rogue(c)
    \/ \E c \in Conns : ConnReset(c)

SyncNext ==
    \/ \E d \in Devs : handle_as_initiator(d)
    \/ \E d \in Devs : handle_as_responder(d)
    \/ \E d \in Devs : run(d)
    \/ \E d \in Devs : Y_AcceptFail(d)
    \/ \E d \in Devs : TimerElapse(d)
    \/ \E d \in Devs : Discover(d)
    \/ \E d \in Devs : RogueSyncConnect(d)
    \/ \E k \in SyncConns : RogueSyncSend(k) \/ RogueSyncClose(k) \/ YConnReset(k)

Next == PairNext \/ SyncNext

Spec == Init /\ [][Next]_vars

\* The tokio runtime polls every task that can make progress: the server's
\* main task, each spawned handle_client and each pair; a peer that is not
\* this code, and the faults of the environment, are under no obligation.
PairFair ==
    /\ WF_vars(ServerStep)
    /\ \A c \in Conns :
          WF_vars(handle_client(c)) /\ WF_vars(pair(c)) /\ WF_vars(identify_device(c))

FairPairSpec == PairInit /\ [][PairNext]_vars /\ PairFair

\* Likewise for a sync: run and the handler it awaits make progress whenever
\* they can, and the sleep of the session timeout does elapse.
SyncFair ==
    \A d \in Devs :
        /\ WF_vars(run(d))
        /\ WF_vars(handle_as_initiator(d))
        /\ WF_vars(handle_as_responder(d))
        /\ WF_vars(TimerElapse(d))

FairSyncSpec == SyncInit /\ [][SyncNext]_vars /\ SyncFair

\* =================================================================== claims
\* ---- C1
\* One pairing session, pair against handle_one, both built from this code at
\* PROTOCOL_VERSION, the server's store empty beforehand, no fault injected.
C1_Session ==
    /\ cfg.srvKind = "impl" /\ cfg.srvMode = "handle_one" /\ cfg.cliKind[1] = "impl"
    /\ cfg.sver = PROTOCOL_VERSION /\ cfg.cver = PROTOCOL_VERSION
    /\ cfg.file0[1] = <<>>
    /\ faults = 0

\* pair reached the live server (the connect was not refused) and has returned.
C1_PairReturned ==
    cpc[1] = "Done" /\ cres[1] # Err("Network", "Failed to connect")

\* C1: when pair runs against a server in handle_one mode, both at protocol
\* version 1 and without transport failure, pair returns a PairingResult whose
\* server_name is the server's device name, and the server's authorized-keys
\* list then holds exactly one entry, the client's public key.
C1_FullHandshake ==
    (C1_Session /\ C1_PairReturned) =>
        /\ cres[1].st = "ok"
        /\ cres[1].server_name = ServerName
        /\ list_authorized_keys(authorized_keys) = <<cfg.ckey[1].public_key>>

C1_Witness ==
    /\ C1_Session /\ C1_PairReturned
    /\ cres[1] = PairingResult(ServerName, ServerUser, None)
    /\ spc = "Returned" /\ sres = OkUnit

\* ---- C2
\* One sync session, handle_as_initiator of device 1 against
\* handle_as_responder of device 2: different names, same version, no fault.
C2_Session ==
    /\ cfg.driver[1] = "initiator" /\ cfg.driver[2] = "responder"
    /\ cfg.yname[1] # cfg.yname[2]
    /\ cfg.yver[1] = cfg.yver[2]
    /\ faults = 0

HoldsKey(file, kp) ==
    \E i \in 1..Len(list_authorized_keys(file)) : list_authorized_keys(file)[i] = kp.public_key

\* C2: when A runs handle_as_initiator against B running handle_as_responder
\* (different names, same version, no transport failure) both return Ok; A's
\* authorized keys then hold B's public key and B's hold A's, and each
\* SyncResult carries the other's device name and OS user.
C2_BidirectionalSync ==
    /\ (C2_Session /\ ypc[1] = "Returned") =>
          /\ yres[1].st = "ok"
          /\ yres[1].peer_name = cfg.yname[2] /\ yres[1].peer_user = DevUser(2)
          /\ HoldsKey(ykeys[1], DevKey(2))
          /\ HoldsKey(ykeys[2], DevKey(1))
    /\ (C2_Session /\ ypc[2] = "Returned") =>
          /\ yres[2].st = "ok"
          /\ yres[2].peer_name = cfg.yname[1] /\ yres[2].peer_user = DevUser(1)
          /\ HoldsKey(ykeys[2], DevKey(1))

C2_Witness ==
    /\ C2_Session /\ ypc[1] = "Returned" /\ ypc[2] = "Returned"
    /\ yres[1].st = "ok" /\ yres[2].st = "ok"
    /\ cfg.file0[1] # <<>>

\* ---- C3
\* handle_client read, as its first line, a Hello of another version;
\* handle_as_responder read, as the first line of connection k, a SyncHello of
\* another version.
MismatchedHello(c) ==
    /\ cfg.srvKind = "impl" /\ Len(srecv[c]) >= 1
    /\ srecv[c][1].type = "Hello" /\ srecv[c][1].version # cfg.sver

MismatchedSyncHello(k) ==
    /\ yconn[k] # NoConn /\ cfg.driver[yconn[k].to] # "rogue"
    /\ Len(ychan[k].rrecv) >= 1
    /\ ychan[k].rrecv[1].type = "SyncHello"
    /\ ychan[k].rrecv[1].version # cfg.yver[yconn[k].to]

HasError(msgs) == \E i \in 1..Len(msgs) : msgs[i].type = "Error"

\* The behaviour on a version mismatch, with the kind of error the receiving
\* side of a one-way pairing returns left open (receiverKind).
VersionMismatchAborts(receiverKind) ==
    /\ \A c \in Conns : MismatchedHello(c) =>
          /\ Len(srecv[c]) = 1 /\ hpc[c] \in {"WriteError", "Done"}
          /\ (cfg.srvMode = "handle_one") => authorized_keys = cfg.file0[1]
          /\ (hpc[c] = "Done" /\ hres[c] # Err("Io", "write")) =>
                hres[c] = Err(receiverKind, "Protocol version mismatch")
          /\ (cfg.cliKind[c] = "impl" /\ faults = 0 /\ hpc[c] = "Done") =>
                HasError(s2c[c] \o crecv[c])
          /\ (cfg.cliKind[c] = "impl" /\ faults = 0 /\ cpc[c] = "Done") =>
                cres[c] = Err("Handshake", MismatchText(cfg.sver, cfg.cver))
    /\ \A k \in SyncConns : MismatchedSyncHello(k) =>
          LET t == yconn[k].to
              f == yconn[k].from
          IN  /\ Len(ychan[k].rrecv) = 1
              /\ yst[t].conn = k => ypc[t] \notin {"R_ReadHello", "R_AddKey", "R_WriteAck",
                                                   "R_ReadComplete", "R_WriteComplete"}
              /\ cfg.driver[t] = "responder" => ykeys[t] = cfg.file0[t]
              /\ (cfg.driver[t] = "responder" /\ ypc[t] = "Returned"
                    /\ yres[t] # Err("Io", "write")) =>
                    yres[t] = Err("Protocol", "Protocol version mismatch")
              /\ (cfg.driver[f] = "initiator" /\ faults = 0 /\ ypc[t] = "Returned") =>
                    HasError(ychan[k].r2i \o ychan[k].irecv)
              /\ (cfg.driver[f] = "initiator" /\ faults = 0 /\ ypc[f] = "Returned") =>
                    /\ yres[f].st = "err" /\ yres[f].err \in {"Handshake", "Sync"}
                    /\ yres[f].message = MismatchText(cfg.yver[t], cfg.yver[f])
                    /\ ykeys[f] = cfg.file0[f]

\* C3 as stated: a Hello or SyncHello of another version makes the receiving
\* side send an Error message and abort the connection with a protocol error
\* (the Protocol kind of the error taxonomy) without installing a key, and
\* makes the connecting side's operation end in a handshake failure.
C3_VersionMismatchProtocolError == VersionMismatchAborts("Protocol")

\* C3 as coded: the same, except that handle_client returns the Handshake
\* kind of error where the claim has a protocol error.
C3_VersionMismatchAsCoded == VersionMismatchAborts("Handshake")

C3_Witness ==
    /\ cfg.srvKind = "impl" /\ cfg.cliKind[1] = "impl" /\ faults = 0
    /\ MismatchedHello(1)
    /\ hpc[1] = "Done" /\ hres[1] = Err("Handshake", "Protocol version mismatch")
    /\ cpc[1] = "Done"

\* A sync session that met a version mismatch has ended on both sides.
C3_SyncMismatchReached ==
    \E k \in SyncConns :
        /\ MismatchedSyncHello(k)
        /\ cfg.driver[yconn[k].to] = "responder" /\ cfg.driver[yconn[k].from] = "initiator"
        /\ ypc[1] = "Returned" /\ ypc[2] = "Returned" /\ faults = 0

\* ---- C4
\* handle_as_responder read, as the first line of connection k, a SyncHello of
\* its own version whose device_name and initiator_priority equal its own.
SelfSyncHello(k) ==
    /\ yconn[k] # NoConn /\ cfg.driver[yconn[k].to] # "rogue"
    /\ Len(ychan[k].rrecv) >= 1
    /\ ychan[k].rrecv[1].type = "SyncHello"
    /\ ychan[k].rrecv[1].version = cfg.yver[yconn[k].to]
    /\ ychan[k].rrecv[1].device_name = cfg.yname[yconn[k].to]
    /\ ychan[k].rrecv[1].initiator_priority = cfg.yprio[yconn[k].to]

\* handle_as_initiator read, as the first line of connection k, a SyncHelloAck
\* of its own version that refuses the sync.
RefusedAck(k) ==
    /\ yconn[k] # NoConn /\ cfg.driver[yconn[k].from] # "rogue"
    /\ Len(ychan[k].irecv) >= 1
    /\ ychan[k].irecv[1].type = "SyncHelloAck"
    /\ ychan[k].irecv[1].version = cfg.yver[yconn[k].from]
    /\ ~ychan[k].irecv[1].accept_sync

HasRefusal(msgs) ==
    \E i \in 1..Len(msgs) : msgs[i].type = "SyncHelloAck" /\ ~msgs[i].accept_sync

\* C4: a responder that receives a SyncHello whose device_name and
\* initiator_priority both equal its own replies with a SyncHelloAck carrying
\* accept_sync = false, returns the SyncWithSelf error and installs no key; the
\* initiator that receives the refusal installs no key either.
C4_SelfSyncRefused ==
    /\ \A k \in SyncConns : SelfSyncHello(k) =>
          LET t == yconn[k].to
              f == yconn[k].from
          IN  /\ Len(ychan[k].rrecv) = 1
              /\ ~HasError(ychan[k].r2i \o ychan[k].irecv) \/ cfg.driver[f] = "rogue"
              /\ yst[t].conn = k => ypc[t] \notin {"R_ReadHello", "R_AddKey", "R_WriteAck",
                                                   "R_ReadComplete", "R_WriteComplete"}
              /\ cfg.driver[t] = "responder" => ykeys[t] = cfg.file0[t]
              /\ (cfg.driver[t] = "responder" /\ ypc[t] = "Returned"
                    /\ yres[t] # Err("Io", "write")) =>
                    yres[t] = Err("SyncWithSelf", "")
              /\ (cfg.driver[t] = "run" /\ yst[t].conn = k /\ ypc[t] = "Select"
                    /\ yst[t].last # Err("Io", "write")) =>
                    yst[t].last = Err("SyncWithSelf", "")
              /\ (cfg.driver[f] = "initiator" /\ faults = 0 /\ ypc[t] = "Returned") =>
                    HasRefusal(ychan[k].r2i \o ychan[k].irecv)
    /\ \A k \in SyncConns : RefusedAck(k) =>
          LET f == yconn[k].from
          IN  /\ Len(ychan[k].irecv) = 1
              /\ cfg.driver[f] = "initiator" =>
                    /\ ykeys[f] = cfg.file0[f]
                    /\ ypc[f] = "Returned"
                    /\ yres[f] = Err("SyncRejected", "Peer declined sync")

C4_Witness ==
    \E k \in SyncConns :
        /\ SelfSyncHello(k) /\ RefusedAck(k)
        /\ cfg.driver[yconn[k].to] = "responder" /\ cfg.driver[yconn[k].from] = "initiator"
        /\ yres[yconn[k].to] = Err("SyncWithSelf", "")
        /\ yres[yconn[k].from] = Err("SyncRejected", "Peer declined sync")
        /\ cfg.file0[1] # <<>>

\* ---- C5
\* The lines pair has read are, in this order, a HelloAck of its own version,
\* a KeyAccepted and a PairingComplete.
GoodReplies(c) ==
    /\ Len(crecv[c]) = 3
    /\ crecv[c][1].type = "HelloAck" /\ crecv[c][1].version = cfg.cver
    /\ crecv[c][2].type = "KeyAccepted"
    /\ crecv[c][3].type = "PairingComplete"

ErrorKinds == {"Network", "Handshake", "Io", "Serialization"}

\* C5: pair returns a PairingResult only if it received, in this order, a
\* HelloAck with matching version, a KeyAccepted and a PairingComplete; on any
\* other message, a received Error, a version mismatch or an IO failure at any
\* step it returns a typed error and never a PairingResult.
C5_PairAllOrNothing ==
    \A c \in Conns : cfg.cliKind[c] = "impl" =>
        /\ cres[c].st = "ok" =>
              /\ cpc[c] = "Done" /\ GoodReplies(c)
              /\ cres[c] = PairingResult(crecv[c][1].device_name, crecv[c][3].ssh_user,
                                         crecv[c][1].verification_code)
        /\ cpc[c] = "Done" => cres[c].st \in {"ok", "err"}
        /\ (cpc[c] = "Done" /\ ~GoodReplies(c)) =>
              cres[c].st = "err" /\ cres[c].err \in ErrorKinds
        /\ cpc[c] # "Done" => cres[c] = Pending

\* pair, against a peer that is not this code, returned a PairingResult.
C5_Witness ==
    /\ cfg.srvKind = "rogue" /\ cfg.cliKind[1] = "impl"
    /\ cpc[1] = "Done" /\ cres[1].st = "ok" /\ GoodReplies(1)

\* pair returned an error after a KeyAccepted arrived where HelloAck was due.
C5_ErrorReached ==
    /\ cfg.srvKind = "rogue" /\ cfg.cliKind[1] = "impl"
    /\ cpc[1] = "Done" /\ cres[1] = Err("Handshake", "Unexpected response")
    /\ crecv[1] = <<KeyAccepted>>

\* ---- C6
\* The variant each side expects as the i-th line it reads.
ExpectedByServer(i) == IF i = 1 THEN "Hello" ELSE "KeyExchange"
ExpectedByClient(i) ==
    IF i = 1 THEN "HelloAck" ELSE IF i = 2 THEN "KeyAccepted" ELSE "PairingComplete"
ExpectedByInitiator(i) == IF i = 1 THEN "SyncHelloAck" ELSE "SyncComplete"
ExpectedByResponder(i) == IF i = 1 THEN "SyncHello" ELSE "SyncComplete"

\* The i-th line of a side's history is of a variant it does not expect there.
Unexpected(recv, i, expected) ==
    i \in 1..Len(recv) /\ recv[i].type # expected

\* The positions inside handle_as_initiator and handle_as_responder.
HandlerPcs ==
    {"I_Connect", "I_WriteHello", "I_ReadAck", "I_AddKey", "I_WriteComplete", "I_ReadComplete",
     "R_ReadHello", "R_WriteAbort", "R_AddKey", "R_WriteAck", "R_ReadComplete",
     "R_WriteComplete"}

\* C6: in every one-way and sync session, a side that receives a message of a
\* variant other than the one expected at its current step ends the session
\* with an error: the message is the last it reads on that connection, it
\* takes no further protocol step, and what it returns is an error.
C6_UnexpectedVariantEnds ==
    /\ \A c \in Conns : \A i \in 1..Len(srecv[c]) :
          (cfg.srvKind = "impl" /\ Unexpected(srecv[c], i, ExpectedByServer(i))) =>
              /\ i = Len(srecv[c])
              /\ hpc[c] \in {"WriteError", "Done"}
              /\ hpc[c] = "Done" => hres[c].st = "err"
    /\ \A c \in Conns : \A i \in 1..Len(crecv[c]) :
          (cfg.cliKind[c] = "impl" /\ Unexpected(crecv[c], i, ExpectedByClient(i))) =>
              /\ i = Len(crecv[c])
              /\ cpc[c] = "Done" /\ cres[c].st = "err"
    /\ \A k \in SyncConns : \A i \in 1..Len(ychan[k].irecv) :
          Unexpected(ychan[k].irecv, i, ExpectedByInitiator(i)) =>
              LET f == yconn[k].from
              IN  /\ i = Len(ychan[k].irecv)
                  /\ yst[f].conn = k =>
                        /\ ypc[f] \notin HandlerPcs
                        /\ yst[f].last.st = "err"
                  /\ cfg.driver[f] = "initiator" => yres[f].st = "err"
    /\ \A k \in SyncConns : \A i \in 1..Len(ychan[k].rrecv) :
          Unexpected(ychan[k].rrecv, i, ExpectedByResponder(i)) =>
              LET t == yconn[k].to
              IN  /\ i = Len(ychan[k].rrecv)
                  /\ yst[t].conn = k =>
                        /\ ypc[t] \notin HandlerPcs \ {"R_WriteAbort"}
                        /\ ypc[t] # "R_WriteAbort" => yst[t].last.st = "err"
                  /\ (cfg.driver[t] = "responder" /\ ypc[t] = "Returned") => yres[t].st = "err"

\* Each of the four sides has ended a session on a well-formed line of a
\* variant it did not expect.
C6_WitnessServer ==
    /\ cfg.srvKind = "impl" /\ hpc[1] = "Done"
    /\ Len(srecv[1]) = 2 /\ srecv[1][2].type = "KeyAccepted"
    /\ hres[1] = Err("Handshake", "Expected KeyExchange")

C6_WitnessResponder ==
    /\ cfg.driver[2] = "responder" /\ ypc[2] = "Returned"
    /\ Len(ychan[1].rrecv) = 2 /\ ychan[1].rrecv[2].type = "SyncHello"
    /\ yres[2] = Err("Protocol", "Expected SyncComplete")

C6_WitnessClient ==
    /\ cfg.cliKind[1] = "impl" /\ cpc[1] = "Done"
    /\ Len(crecv[1]) = 3 /\ crecv[1][3].type = "KeyAccepted"
    /\ cres[1] = Err("Handshake", "Expected PairingComplete")

C6_WitnessInitiator ==
    /\ cfg.driver[1] = "initiator" /\ ypc[1] = "Returned"
    /\ Len(ychan[1].irecv) = 2 /\ ychan[1].irecv[2].type = "SyncHelloAck"
    /\ yres[1] = Err("Protocol", "Expected SyncComplete")

\* ---- C7
\* Client c reached the server of run (its connect was not refused).
Connected(c) == cpc[c] \notin {"Idle"} /\ cres[c] # Err("Network", "Failed to connect")

\* run, with a receiver that keeps draining the event channel.
C7_Run == cfg.srvMode = "run" /\ cfg.consumer = "drain"

\* C7: under run each accepted connection is handled by a task of its own: a
\* connection that fails or stalls neither stops the accept loop nor keeps
\* another connected client from completing its pairing, and run does not
\* return while the listener works.
C7_RunIsolatesConnections ==
    /\ [](cfg.srvMode = "run" =>
            /\ spc = "Returned" => listener = "none"
            /\ listener # "closed")
    /\ [](\A c \in Conns :
            (C7_Run /\ cfg.cliKind[c] = "impl" /\ Connected(c) /\ cpc[c] = "Done"
               /\ faults = 0) => cres[c].st = "ok")
    /\ \A c \in Conns :
          (C7_Run /\ cfg.cliKind[c] = "impl" /\ cpc[c] = "WriteHello") ~> (cpc[c] = "Done")

\* Client 2 has completed its pairing while the connection of a silent peer,
\* accepted before it, is still waiting for its first line, and run is
\* accepting.
C7_Witness ==
    /\ C7_Run /\ cfg.cliKind[1] = "rogue" /\ faults = 0
    /\ hpc[1] = "ReadHello" /\ c2s[1] = <<>> /\ cOpen[1]
    /\ cpc[2] = "Done" /\ cres[2].st = "ok" /\ hpc[2] = "Done"
    /\ spc = "Accept"

\* ---- C8
\* C8: every blocking network operation of the pairing exchange has a
\* timeout: if the peer connects and then never sends or never answers, pair,
\* handle_one and the per-connection handler each eventually return.
C8_SilentPeerTimesOut ==
    /\ \A c \in Conns :
          (cfg.cliKind[c] = "impl"
             /\ cpc[c] \in {"ReadHelloAck", "ReadKeyAccepted", "ReadPairingComplete"})
          ~> (cpc[c] = "Done")
    /\ \A c \in Conns :
          (cfg.srvKind = "impl" /\ cfg.consumer = "drain"
             /\ hpc[c] \in {"ReadHello", "ReadKeyExchange"})
          ~> (hpc[c] = "Done")
    /\ (cfg.srvMode = "handle_one" /\ cfg.consumer = "drain" /\ spc = "Handle")
          ~> (spc = "Returned")

\* handle_one has accepted a peer that is connected, has sent nothing and will
\* send nothing; no step of the server is possible.
C8_Witness ==
    /\ cfg.srvMode = "handle_one" /\ cfg.cliKind[1] = "rogue"
    /\ spc = "Handle" /\ hpc[1] = "ReadHello"
    /\ c2s[1] = <<>> /\ cOpen[1] /\ ~broken[1]
    /\ ~ENABLED (ServerStep \/ handle_client(1))

\* ---- C9
\* C9: SyncHandler::run ends no later than the session timeout, whatever a
\* connected or discovered peer does or fails to do.
C9_RunEndsByTimeout ==
    \A d \in Devs :
        (cfg.driver[d] = "run" /\ ynet[d].timer = "elapsed") ~> (ypc[d] = "Returned")

\* The timeout has elapsed while run awaits handle_as_responder, which waits
\* for the first line of a peer that stays silent; no step of run is possible.
C9_Witness ==
    /\ cfg.driver[1] = "run" /\ cfg.driver[2] = "rogue"
    /\ ynet[1].timer = "elapsed" /\ ypc[1] = "R_ReadHello"
    /\ YIn(1) = <<>> /\ YPeerOpen(1) /\ ~YCh(1).broken
    /\ ~ENABLED (run(1) \/ handle_as_initiator(1) \/ handle_as_responder(1))

\* ---- C10
\* C10: in SyncHandler::run a failed attempt as responder or as initiator does
\* not end the session: run goes back to waiting, and once the wait loop has
\* started it returns an error only for the timeout.
C10_FailedAttemptKeepsWaiting ==
    \A d \in Devs : (cfg.driver[d] = "run" /\ ynet[d].timer # "off") =>
        /\ (ypc[d] \notin HandlerPcs /\ yres[d] = Pending) => ypc[d] = "Select"
        /\ ypc[d] \in {"Cleanup", "Returned"} =>
              \/ yres[d].st = "ok" /\ yres[d] = yst[d].last
              \/ /\ yres[d] = Err("Timeout", "No sync peer found")
                 /\ ynet[d].timer = "elapsed"

\* run returned Ok from an attempt made after an earlier one had failed.
C10_Witness ==
    \E d \in Devs :
        /\ cfg.driver[d] = "run" /\ yst[d].failed = 1
        /\ ypc[d] = "Returned" /\ yres[d].st = "ok"

\* run is back at its select after a refusal, a protocol error and a failed
\* connect.
C10_WaitingAfterFailure ==
    \E d \in Devs :
        /\ cfg.driver[d] = "run" /\ ypc[d] = "Select" /\ yres[d] = Pending
        /\ yst[d].last.st = "err"
        /\ yst[d].last.err \in {"SyncWithSelf", "SyncRejected", "Protocol", "Network"}

\* ---- C11
\* handle_client has ended connection c with an error while the peer still
\* holds its end of a connection that was not reset.
AbortedUsable(c) ==
    /\ cfg.srvKind = "impl" /\ hpc[c] = "Done" /\ hres[c].st = "err"
    /\ cOpen[c] /\ ~broken[c]

\* The same for a sync handler called directly on connection k.
ResponderAbortedUsable(k) ==
    /\ yconn[k] # NoConn /\ cfg.driver[yconn[k].to] = "responder"
    /\ ypc[yconn[k].to] = "Returned" /\ yres[yconn[k].to].st = "err"
    /\ ychan[k].iOpen /\ ~ychan[k].broken

InitiatorAbortedUsable(k) ==
    /\ yconn[k] # NoConn /\ cfg.driver[yconn[k].from] = "initiator"
    /\ ypc[yconn[k].from] = "Returned" /\ yres[yconn[k].from].st = "err"
    /\ ychan[k].rOpen /\ ~ychan[k].broken

\* C11: whenever a handshake or sync connection is aborted by a failure that
\* leaves the connection usable (malformed line, failure to install the key,
\* unexpected variant, version mismatch, refusal), the aborting side has sent
\* an Error message to the peer before closing.
C11_ErrorBeforeClose ==
    /\ \A c \in Conns : AbortedUsable(c) => HasError(s2c[c] \o crecv[c])
    /\ \A k \in SyncConns :
          /\ ResponderAbortedUsable(k) => HasError(ychan[k].r2i \o ychan[k].irecv)
          /\ InitiatorAbortedUsable(k) => HasError(ychan[k].i2r \o ychan[k].rrecv)

\* handle_client has returned the parse error of a malformed first line and
\* closed, the peer is still connected, and no line was sent to it.
C11_Witness ==
    /\ AbortedUsable(1) /\ cfg.srvMode = "handle_one"
    /\ srecv[1] = <<Malformed>> /\ hres[1] = Err("Serialization", "parse")
    /\ s2c[1] = <<>> /\ crecv[1] = <<>>

\* The aborts that do send an Error: handle_client on a version mismatch or on
\* another variant than the one it expects, handle_as_responder on a version
\* mismatch or on a first line that is no SyncHello.
C11_ErrorSentWhereCoded ==
    /\ \A c \in Conns :
          (AbortedUsable(c) /\ hres[c].err = "Handshake") => HasError(s2c[c] \o crecv[c])
    /\ \A k \in SyncConns :
          (ResponderAbortedUsable(k) /\ Len(ychan[k].rrecv) = 1
             /\ yres[yconn[k].to].err = "Protocol") =>
                HasError(ychan[k].r2i \o ychan[k].irecv)

\* ---- C12
\* Under run, the task handling connection c has ended with an error.
FailedUnderRun(c) ==
    cfg.srvMode = "run" /\ hpc[c] = "Done" /\ hres[c].st = "err"

Reported(ev) == \E i \in 1..Len(evlog) : evlog[i] = ev

\* C12: when a connection handled under HandshakeServer::run fails, the
\* failure is reported on the event sink as a ServerEvent::Error, and the loop
\* goes on to accept further connections.
C12_FailureReportedAndLoopContinues ==
    \A c \in Conns : FailedUnderRun(c) =>
        /\ Reported("Error")
        /\ spc \in {"Accept", "EvClientConnected"}

\* The part the code meets: the failure of a connection leaves run in its
\* accept loop, and no ServerEvent::Error is ever sent.
C12_LoopContinuesUnreported ==
    /\ ~Reported("Error")
    /\ \A c \in Conns : FailedUnderRun(c) => spc \in {"Accept", "EvClientConnected"}

\* Under run the connection of a non-conforming peer has failed with a
\* handshake error, the events sent so far hold no Error, and a client
\* accepted after it has been paired.
C12_Witness ==
    /\ FailedUnderRun(1) /\ hres[1].err = "Handshake" /\ cfg.consumer = "drain"
    /\ evlog # <<>> /\ ~Reported("Error")
    /\ hpc[2] = "Done" /\ hres[2] = OkUnit /\ spc = "Accept"

\* ---- C13
\* Line l of an authorized_keys file is an entry for public_key: it carries
\* the same key data (or, for a key of a single word, it is that line).
EntryOf(l, public_key) ==
    IF Len(split_whitespace(public_key)) >= 2
    THEN /\ Len(split_whitespace(l)) >= 2
         /\ split_whitespace(l)[2] = split_whitespace(public_key)[2]
    ELSE l = public_key

EntriesFor(file, public_key) ==
    SelectSeq(list_authorized_keys(file), LAMBDA l : EntryOf(l, public_key))

OtherEntries(file, public_key) ==
    SelectSeq(list_authorized_keys(file), LAMBDA l : ~EntryOf(l, public_key))

\* add_authorized_key was called twice with the same key and returned Ok twice.
AddedTwice == Len(ks.res) >= 2 /\ ks.res[1] = "ok" /\ ks.res[2] = "ok"

\* C13: adding the same public key to the authorized-keys store twice in
\* sequence leaves exactly one stored entry for it and leaves all other
\* entries unchanged (the second add returning success).
C13_AddTwiceOneEntry ==
    AddedTwice =>
        /\ Len(EntriesFor(ks.file, ks.key)) = 1
        /\ OtherEntries(ks.file, ks.key) = OtherEntries(ks.file0, ks.key)

\* The file ends in a line feed, the key has a type and data, and the data
\* occurs in the file only if it is the data of one entry.
CleanStore(file, public_key) ==
    /\ file = <<>> \/ file[Len(file)] = NL
    /\ Len(split_whitespace(public_key)) >= 2
    /\ contains(file, split_whitespace(public_key)[2]) =>
          Len(EntriesFor(file, public_key)) = 1

\* What the code does meet: from such a file and key, two adds leave one
\* entry for the key and the other entries as they were, and a second add
\* never changes the file the first one left.
C13_AddTwiceOneEntryCleanStore ==
    /\ (AddedTwice /\ CleanStore(ks.file0, ks.key)) =>
          /\ Len(EntriesFor(ks.file, ks.key)) = 1
          /\ OtherEntries(ks.file, ks.key) = OtherEntries(ks.file0, ks.key)
    /\ (AddedTwice /\ Len(split_whitespace(ks.key)) >= 2) =>
          ks.file = add_authorized_key(ks.file0, ks.key)

\* Key A was added twice, with success, to a file whose only line is the key
\* of a third party without a final line feed: the file is now one line made
\* of both keys, and key A has no entry.
C13_Witness ==
    /\ AddedTwice /\ ks.key = KeyA.public_key
    /\ ks.file0 = KeyOld.public_key
    /\ ks.file = KeyOld.public_key \o KeyA.public_key \o <<NL>>
    /\ EntriesFor(ks.file, ks.key) = <<>>
    /\ OtherEntries(ks.file, ks.key) # OtherEntries(ks.file0, ks.key)

\* Key A was added twice to a file that holds it commented out: it has no
\* entry.
C13_CommentedOutReached ==
    /\ AddedTwice /\ ks.key = KeyA.public_key
    /\ ks.file0 = <<Hash, Sp>> \o KeyA.public_key \o <<NL>>
    /\ ks.file = ks.file0 /\ EntriesFor(ks.file, ks.key) = <<>>

\* ---- C14
\* The task of connection c has returned from add_authorized_key with Ok.
Installed(c) ==
    /\ cfg.srvKind = "impl" /\ hst[c].kx.type = "KeyExchange"
    /\ \/ hpc[c] \in {"WriteKeyAccepted", "WritePairingComplete", "EvPairingComplete"}
       \/ hpc[c] = "Done" /\ hres[c] \in {OkUnit, Err("Io", "write")}

\* C14: when two connection handlers concurrently install the same public key
\* into the same authorized-keys store, under every interleaving of their
\* check and append steps the store ends with exactly one entry for that key,
\* and no other entry is lost or corrupted.
C14_ConcurrentAddOneEntry ==
    \A c \in Conns : Installed(c) =>
        /\ Len(EntriesFor(authorized_keys, hst[c].kx.public_key)) = 1
        /\ OtherEntries(authorized_keys, hst[c].kx.public_key)
              \in {OtherEntries(cfg.file0[1], hst[c].kx.public_key)}
                    \cup {OtherEntries(cfg.file0[1], hst[c].kx.public_key) \o <<hst[b].kx.public_key>> :
                             b \in {x \in Conns : hst[x].kx.type = "KeyExchange"}}

\* What the code does meet: every handler that installed a key finds an
\* entry for it, every line of the store is a key some handler received, whole,
\* and handlers installing different keys leave one entry each.
C14_NoEntryLost ==
    /\ \A c \in Conns : Installed(c) =>
          Len(EntriesFor(authorized_keys, hst[c].kx.public_key)) >= 1
    /\ cfg.srvMode = "run" =>
          \A i \in 1..Len(list_authorized_keys(authorized_keys)) :
              \E c \in Conns : /\ hst[c].kx.type = "KeyExchange"
                                /\ list_authorized_keys(authorized_keys)[i] = hst[c].kx.public_key
    /\ (Installed(1) /\ Installed(2) /\ hst[1].kx.public_key # hst[2].kx.public_key) =>
          /\ Len(EntriesFor(authorized_keys, hst[1].kx.public_key)) = 1
          /\ Len(EntriesFor(authorized_keys, hst[2].kx.public_key)) = 1

\* Two clients with the same key were paired under run, both handlers checked
\* the store before either appended, and the store holds the key twice.
C14_Witness ==
    /\ cfg.srvMode = "run" /\ cfg.cliKind[1] = "impl" /\ cfg.cliKind[2] = "impl" /\ faults = 0
    /\ hpc[1] = "Done" /\ hres[1] = OkUnit /\ hpc[2] = "Done" /\ hres[2] = OkUnit
    /\ cres[1].st = "ok" /\ cres[2].st = "ok"
    /\ authorized_keys = KeyA.public_key \o <<NL>> \o KeyA.public_key \o <<NL>>

\* ---- C15
\* The host at h accepted the connection, the Hello was written, and the
\* first line the host sent while the probe waited was a HelloAck.
AnsweredHelloAck(h) ==
    /\ sc.host[h].conn # "none"
    /\ sc.res[h] # Err("Network", "write")
    /\ sc.host[h].sent # <<>> /\ sc.host[h].sent[1].type = "HelloAck"

DeviceAt(h) == \E d \in sc.ret.devices : d.addresses = <<h>>

\* C15: scan_ips returns a device for a candidate address if and only if that
\* address accepted the TCP connection within the connect timeout and
\* answered the probe's Hello with a HelloAck; every other outcome excludes the
\* host without surfacing an error and without aborting the other probes.
C15_ScanIpsBestEffort ==
    sc.ret # Pending =>
        /\ sc.ret.st = "ok"
        /\ \A h \in sc.ips :
              /\ sc.pc[h] = "Done"
              /\ DeviceAt(h) => AnsweredHelloAck(h)
              /\ (AnsweredHelloAck(h) /\ ~sc.host[h].reset) => DeviceAt(h)
        /\ \A d \in sc.ret.devices :
              /\ Len(d.addresses) = 1 /\ d.addresses[1] \in sc.ips
              /\ d.port = ScanPort
              /\ d = sc.res[d.addresses[1]]
              /\ d.name = sc.host[d.addresses[1]].sent[1].device_name

\* scan_ips has returned the device of one address that answered with a
\* HelloAck, the other address having answered with an Error message.
C15_Witness ==
    /\ sc.ret # Pending /\ sc.ips = Hosts
    /\ DeviceAt(1) /\ ~DeviceAt(2)
    /\ sc.host[2].sent # <<>> /\ sc.host[2].sent[1].type = "Error"
    /\ sc.res[2] = Err("Protocol", "Expected Hello message")

\* ---- C16
Tried(tier) == \E i \in 1..Len(cl.tiers) : cl.tiers[i] = tier

\* The order of the tiers: mDNS first, subnet probing only after mDNS yielded
\* no device, the ad-hoc tier only after subnet probing yielded none either.
TiersInOrder ==
    /\ cl.tiers \in {<<>>, <<"mdns">>, <<"mdns", "subnet">>, <<"mdns", "subnet", "adhoc">>}
    /\ (Tried("subnet") /\ cl.pc = "Report") =>
          \A i \in 1..Len(cl.devices) : cl.devices[i].via # "mdns"
    /\ (Tried("adhoc") /\ cl.pc = "Report") =>
          \A i \in 1..Len(cl.devices) : cl.devices[i].via = "adhoc"
    /\ (cl.pc \in {"Report", "Returned"} /\ cl.mdns = "ok" /\ ~Tried("subnet")) =>
          cl.devices # <<>>

\* C16: the scan tries the discovery tiers strictly in the order mDNS, subnet
\* probing, ad-hoc network, each only after the one before yielded no device,
\* and a failure of an earlier tier (including mDNS failing with an error)
\* leads on to the next tier rather than to a failed scan.
C16_TiersInOrderFailuresFallThrough ==
    /\ TiersInOrder
    /\ (cl.pc = "Returned" /\ cl.mdns = "error") =>
          /\ Tried("subnet")
          /\ cl.res.st = "err" => cl.res.err # "Discovery"

\* What the code does meet: the order of the tiers, with an error of the mDNS
\* tier ending the scan with that error.
C16_TiersInOrderMdnsErrorEnds ==
    /\ TiersInOrder
    /\ cl.mdns = "error" =>
          /\ cl.pc = "Returned" /\ cl.tiers = <<"mdns">>
          /\ cl.res.st = "err" /\ cl.res.err = "Discovery"

\* The mDNS browse failed and the scan returned its error without having
\* probed any subnet.
C16_Witness ==
    /\ cl.pc = "Returned" /\ cl.mdns = "error" /\ cl.tiers = <<"mdns">>
    /\ cl.res = Err("Discovery", "Failed to browse")

\* All three tiers were tried in order and the ad-hoc host was found.
C16_AllTiersReached ==
    /\ cl.pc = "Returned" /\ cl.res = OkUnit
    /\ cl.tiers = <<"mdns", "subnet", "adhoc">> /\ Len(cl.devices) = 1

\* ---- C17
\* The number of addresses of a returned list start..=end, up to 65536 (-1
\* stands for more).
CidrLen(r) ==
    IF Less32(r.end, r.start) THEN 0
    ELSE IF SubSeq(r.start, 1, 16) = SubSeq(r.end, 1, 16)
    THEN BitsValue(SubSeq(r.end, 17, 32)) - BitsValue(SubSeq(r.start, 17, 32)) + 1
    ELSE -1

\* For an input ip/prefix with prefix >= 24: the last octets of the network
\* and of the broadcast address.
NetworkOctet(ip, prefix) == ip[4] - (ip[4] % Pow2(32 - prefix))
BroadcastOctet(ip, prefix) == NetworkOctet(ip, prefix) + Pow2(32 - prefix) - 1

\* The returned list is every address strictly between the network and the
\* broadcast address, in ascending order.
StrictlyBetween(r, ip, prefix) ==
    IF BroadcastOctet(ip, prefix) - NetworkOctet(ip, prefix) < 2
    THEN CidrLen(r) = 0
    ELSE /\ Ipv4Addr(r.start) = [ip EXCEPT ![4] = NetworkOctet(ip, prefix) + 1]
         /\ Ipv4Addr(r.end) = [ip EXCEPT ![4] = BroadcastOctet(ip, prefix) - 1]
         /\ CidrLen(r) = Pow2(32 - prefix) - 2

\* The behaviour of parse_cidr on every input but those in `except`.
ParseCidrContract(except) ==
    (cd.res # Pending /\ <<cd.ip, cd.prefix>> \notin except) =>
        /\ cd.res.st \in {"ok", "err"}
        /\ cd.res.st = "ok" <=> (cd.ip # <<>> /\ cd.prefix \in 16..32)
        /\ (cd.res.st = "ok" /\ cd.prefix >= 24) => StrictlyBetween(cd.res, cd.ip, cd.prefix)
        /\ (cd.res.st = "ok" /\ cd.prefix < 24) =>
              CidrLen(cd.res) = Pow2(32 - cd.prefix) - 1
        /\ cd.input = CidrText(<<192, 168, 1, 0>>, 24) =>
              /\ CidrLen(cd.res) = 254
              /\ Ipv4Addr(cd.res.start) = <<192, 168, 1, 1>>
              /\ Ipv4Addr(cd.res.end) = <<192, 168, 1, 254>>
        /\ (cd.res.st = "ok" /\ cd.prefix = 30) => CidrLen(cd.res) = 2
        /\ (cd.res.st = "ok" /\ cd.prefix = 32) => CidrLen(cd.res) = 0

\* C17: parse_cidr returns an address list exactly for inputs of the form
\* ip/prefix with a valid IPv4 address and 16 <= prefix <= 32 and fails for
\* every other input; for prefix >= 24 the list is every address strictly
\* between the network and the broadcast address in ascending order:
\* 192.168.1.0/24 yields the 254 addresses .1 to .254, a /30 yields 2
\* addresses and a /32 yields none.
C17_ParseCidr == ParseCidrContract({})

\* The inputs on which network + 1 or broadcast - 1 leaves the range of u32.
CidrOverflowInputs == { <<<<0, 0, 0, 0>>, 32>>, <<<<255, 255, 255, 255>>, 32>> }

\* What the code does meet: the same on every input but 0.0.0.0/32 and
\* 255.255.255.255/32, on which it panics or returns a list of 2^32 - 1
\* addresses.
C17_ParseCidrButOverflow ==
    /\ ParseCidrContract(CidrOverflowInputs)
    /\ (cd.res # Pending /\ <<cd.ip, cd.prefix>> \in CidrOverflowInputs) =>
          IF cd.build = "debug" THEN cd.res.st = "panic"
          ELSE cd.res.st = "ok" /\ CidrLen(cd.res) = -1

\* parse_cidr("0.0.0.0/32") in a build without overflow checks has returned
\* the list 0.0.0.1 ..= 255.255.255.255.
C17_Witness ==
    /\ cd.input = CidrText(<<0, 0, 0, 0>>, 32) /\ cd.build = "release"
    /\ cd.res # Pending /\ cd.res.st = "ok"
    /\ Ipv4Addr(cd.res.start) = <<0, 0, 0, 1>>
    /\ Ipv4Addr(cd.res.end) = <<255, 255, 255, 255>>

\* parse_cidr("192.168.1.0/24") has returned .1 to .254.
C17_BasicReached ==
    /\ cd.input = CidrText(<<192, 168, 1, 0>>, 24) /\ cd.res # Pending
    /\ cd.res.st = "ok" /\ CidrLen(cd.res) = 254

\* ---- C18
\* The name a stop() at position i of the calls finds in service_fullname
\* according to the calls before it: that of the last successful advertise()
\* if no stop() or drop came after it, none otherwise.
Advertised(log, i) ==
    LET js == { j \in 1..(i - 1) :
                  \/ log[j].op = "advertise" /\ log[j].ret = "Ok"
                  \/ log[j].op \in {"stop", "drop"} }
        j == CHOOSE x \in js : \A y \in js : y <= x
    IN  IF js = {} \/ log[j].op # "advertise" THEN "" ELSE log[j].name

\* C18: for both advertisers, a stop() after a successful advertise() makes
\* one unregister call for the advertised service; a later stop() and the drop
\* make none; every stop() returns Ok(()), whatever the daemon answered.
C18_StopIdempotent ==
    \A i \in 1..Len(ad.log) :
        ad.log[i].op \in {"stop", "drop"} =>
            /\ ad.log[i].ret = "Ok"
            /\ Len(ad.log[i].unregistered) = IF Advertised(ad.log, i) = "" THEN 0 ELSE 1
            /\ \A u \in 1..Len(ad.log[i].unregistered) :
                  ad.log[i].unregistered[u].fullname = Fullname(ad.kind, Advertised(ad.log, i))

\* advertise() succeeded, the daemon refused the unregister call of stop(),
\* and a second stop() and the drop followed.
C18_Witness ==
    /\ ad.state = "dropped"
    /\ \E i \in 1..Len(ad.log) :
          /\ i + 2 <= Len(ad.log)
          /\ Advertised(ad.log, i) # ""
          /\ ad.log[i].op = "stop" /\ ad.log[i].ret = "Ok"
          /\ Len(ad.log[i].unregistered) = 1 /\ ~ad.log[i].unregistered[1].ok
          /\ ad.log[i + 1].op = "stop" /\ ad.log[i + 1].unregistered = <<>>
          /\ ad.log[i + 2].op = "drop" /\ ad.log[i + 2].unregistered = <<>>

\* ---- C19
\* The devices resolved and not removed since, according to the events the
\* thread has handled: for each full name whose last event is a resolution,
\* the device of that resolution.
ResolvedNotRemoved(handled) ==
    LET about(n) == { i \in 1..Len(handled) :
                        /\ handled[i].ty \in {"ServiceResolved", "ServiceRemoved"}
                        /\ handled[i].fullname = n }
        last(n) == CHOOSE i \in about(n) : \A j \in about(n) : j <= i
    IN  { DiscoveredDevice(n, handled[last(n)].hostname, handled[last(n)].addresses,
                           handled[last(n)].port, n) :
            n \in { m \in BrNames : about(m) # {} /\ handled[last(m)].ty = "ServiceResolved" } }

\* What ends the loop of scan_for_duration.
StopSignals == {"timeout", "SearchStopped", "None"}

\* The loop ends as soon as select! yields the elapsed sleep, SearchStopped
\* or the closed channel, and only then.
StopsAtFirstSignal ==
    /\ br.event \in StopSignals => br.pc = "Returned" /\ br.ret.st = "ok"
    /\ (br.pc = "Returned" /\ br.ret.st = "ok") => br.event \in StopSignals
    /\ br.event = "timeout" => br.timer = "elapsed"

\* The step that ends the loop returns the devices resolved and not removed.
ReturnsResolved ==
    (br.pc = "Select" /\ br'.pc = "Returned") =>
        /\ br'.ret.st = "ok"
        /\ ResolvedNotRemoved(br.handled) \subseteq br'.ret.devices

\* C19: scan_for_duration(d) always returns; it stops at the first of the
\* duration elapsing, SearchStopped and the closing of the event channel; it
\* returns every device resolved and not removed by then.
C19_ScanForDurationReturns ==
    /\ []StopsAtFirstSignal
    /\ [][ReturnsResolved]_vars
    /\ (br.pc \in {"Browse", "Select"}) ~> (br.pc = "Returned")

\* The scan ended on SearchStopped before the sleep elapsed, with a device
\* resolved and still there and another resolved and removed.
C19_Witness ==
    /\ br.pc = "Returned" /\ br.event = "SearchStopped" /\ br.timer = "running"
    /\ br.ret.st = "ok" /\ br.ret.devices # {}
    /\ br.ret.devices = ResolvedNotRemoved(br.handled)
    /\ \E i \in 1..Len(br.handled) : br.handled[i].ty = "ServiceRemoved"

\* The scan ended on the sleep, and on the closed channel.
C19_TimeoutReached == br.pc = "Returned" /\ br.event = "timeout" /\ br.ret.devices # {}
C19_ClosedReached == br.pc = "Returned" /\ br.event = "None" /\ br.ret.devices # {}

\* ---- C20
\* No two records of a device set share an address.
NoSharedAddress(devices) ==
    \A d1, d2 \in devices : d1 # d2 => d1.addresses \cap d2.addresses = {}

\* No two records of a device set share an instance name.
NoSharedInstance(devices) ==
    \A d1, d2 \in devices : d1 # d2 => d1.instance_name # d2.instance_name

\* C20 (as stated): whatever was resolved and removed, the devices returned by
\* get_devices and by scan_for_duration hold no two records for one address.
C20_NoTwoRecordsSameAddress ==
    /\ NoSharedAddress(get_devices(br))
    /\ (br.pc = "Returned" /\ br.ret.st = "ok") => NoSharedAddress(br.ret.devices)

\* C20 (what the code keeps): the map is keyed by the full name of the service
\* instance: the devices returned hold one record per instance resolved and
\* not removed, the one of its latest resolution.
C20_OneRecordPerInstance ==
    /\ NoSharedInstance(get_devices(br))
    /\ get_devices(br) = ResolvedNotRemoved(br.handled)
    /\ (br.pc = "Returned" /\ br.ret.st = "ok") => NoSharedInstance(br.ret.devices)

\* Two instances resolved at one address, both returned by the scan.
C20_Witness ==
    /\ br.pc = "Returned" /\ br.ret.st = "ok"
    /\ \E d1, d2 \in br.ret.devices :
          d1.instance_name # d2.instance_name /\ d1.addresses \cap d2.addresses # {}

\* One instance resolved twice, at different addresses: one record.
C20_ResolvedTwiceReached ==
    /\ \E i, j \in 1..Len(br.handled) :
          /\ i < j
          /\ br.handled[i].ty = "ServiceResolved" /\ br.handled[j].ty = "ServiceResolved"
          /\ br.handled[i].fullname = br.handled[j].fullname
          /\ br.handled[i].addresses # br.handled[j].addresses
    /\ Cardinality(get_devices(br)) = 1

\* ---- C21
\* The resolved service is the local device's own advertisement.
OwnAdvertisement(info) == info.device_name = fp.our_name /\ info.hostname = fp.our_host

\* C21 (as stated): find_peers never forwards the local device's own service,
\* and it drops no resolved service advertised under another device name.
C21_DropsOnlyOwnService ==
    \A i \in 1..Len(fp.handled) :
        LET h == fp.handled[i] IN
        /\ OwnAdvertisement(h.info) => h.did # "forwarded"
        /\ h.info.device_name # fp.our_name => h.did # "skipped"

\* C21 (what the code does): find_peers skips exactly the services whose full
\* name contains the local device name, its own among them, and sends every
\* other one on peer_tx.
C21_DropsNamesContainingOurs ==
    /\ \A i \in 1..Len(fp.handled) :
          LET h == fp.handled[i] IN
          /\ h.did = "skipped" <=> contains(h.info.fullname, fp.our_name)
          /\ OwnAdvertisement(h.info) => h.did = "skipped"
    /\ \A i \in 1..Len(fp.peers) : ~contains(fp.peers[i].instance_name, fp.our_name)

\* A device named "mac" has skipped the service of the device "mac2" on
\* another host.
C21_Witness ==
    /\ fp.our_name = <<"m", "a", "c">>
    /\ \E i \in 1..Len(fp.handled) :
          /\ fp.handled[i].info.device_name = <<"m", "a", "c", "2">>
          /\ fp.handled[i].info.hostname # fp.our_host
          /\ fp.handled[i].did = "skipped"

\* The own service was skipped and another one forwarded.
C21_OwnSkippedReached ==
    /\ \E i \in 1..Len(fp.handled) :
          OwnAdvertisement(fp.handled[i].info) /\ fp.handled[i].did = "skipped"
    /\ fp.peers # <<>>

\* ---- C22
\* The HelloAck lines the server's handler has put on connection c.
AcksSent(c) ==
    { m \in { s2c[c][i] : i \in 1..Len(s2c[c]) } \cup { crecv[c][i] : i \in 1..Len(crecv[c]) } :
        m.type = "HelloAck" }

\* Some(code) with code a string of 4 decimal digits.
FourDigits(code) ==
    /\ code # None
    /\ Len(code[1]) = 4
    /\ \A i \in 1..Len(code[1]) : code[1][i] \in 0..9

\* C22: HelloAck carries a verification code of 4 decimal digits if and only
\* if the server requires verification; the PairingResult of the client
\* carries the code of the HelloAck it received; the server installs the key
\* and completes after reading Hello and KeyExchange only: no line of the
\* client confirms the code.
C22_CodeInformational ==
    \A c \in Conns :
        /\ cfg.srvKind = "impl" =>
              /\ \A m \in AcksSent(c) :
                    /\ m.verification_code # None <=> cfg.require_verification
                    /\ m.verification_code # None => FourDigits(m.verification_code)
                    /\ m.verification_code = hst[c].code
              /\ Len(srecv[c]) <= 2
              /\ hres[c].st = "ok" =>
                    /\ [i \in 1..Len(srecv[c]) |-> srecv[c][i].type] = <<"Hello", "KeyExchange">>
                    /\ key_already_authorized(authorized_keys, srecv[c][2].public_key)
        /\ (cfg.cliKind[c] = "impl" /\ cres[c].st = "ok") =>
              /\ crecv[c][1].type = "HelloAck"
              /\ cres[c].verification_code = crecv[c][1].verification_code

\* With verification required, the client returned the code 0042 of the
\* HelloAck and the server completed the pairing and installed the key.
C22_Witness ==
    /\ cfg.srvKind = "impl" /\ cfg.cliKind[1] = "impl" /\ cfg.require_verification
    /\ cres[1].st = "ok" /\ cres[1].verification_code = Some(<<0, 0, 4, 2>>)
    /\ hres[1].st = "ok"
    /\ list_authorized_keys(authorized_keys) # <<>>

\* Without verification the HelloAck received has no code.
C22_NoCodeReached ==
    /\ cfg.srvKind = "impl" /\ cfg.cliKind[1] = "impl" /\ ~cfg.require_verification
    /\ cres[1].st = "ok" /\ cres[1].verification_code = None

\* ---- C23
\* C23: for every address list, primary_address (of DiscoveredDevice and of
\* SyncPeer) returns the first IPv4 address in list order when there is one,
\* otherwise the first address, and None exactly when the list is empty.
C23_PrimaryAddress ==
    (pf.fn = "primary_address" /\ pf.res # Pending) =>
        LET addresses == pf.arg
            v4 == { i \in 1..Len(addresses) : addresses[i].family = "V4" }
            r == pf.res.value
        IN  /\ v4 # {} => r = Some(addresses[CHOOSE i \in v4 : \A j \in v4 : i <= j])
            /\ (v4 = {} /\ addresses # <<>>) => r = Some(addresses[1])
            /\ r = None <=> addresses = <<>>

\* The list [::1, 192.168.1.100, fe80::1] gave 192.168.1.100.
C23_Witness ==
    /\ pf.fn = "primary_address"
    /\ pf.arg = <<IpV6("::1"), IpV4("192.168.1.100"), IpV6("fe80::1")>>
    /\ pf.res # Pending /\ pf.res.value = Some(IpV4("192.168.1.100"))

\* The empty list gave None, and a list of IPv6 addresses its first.
C23_NoneReached == pf.fn = "primary_address" /\ pf.res # Pending /\ pf.res.value = None
C23_FallbackReached ==
    /\ pf.fn = "primary_address" /\ pf.res # Pending
    /\ pf.arg = <<IpV6("fe80::1"), IpV6("::1")>> /\ pf.res.value = Some(IpV6("fe80::1"))

\* ---- C24
\* C24: for every Message variant and every value of its fields, from_json of
\* the wire form that to_json produced is a message equal to the original.
C24_RoundTrip ==
    (pf.fn = "to_json" /\ pf.res # Pending /\ pf.res.parsed # Pending) =>
        pf.res.parsed = pf.arg

\* A HelloAck whose code holds a quote and a backslash went to the wire with
\* the escapes and came back equal.
C24_Witness ==
    /\ pf.fn = "to_json" /\ pf.res # Pending /\ pf.res.parsed = pf.arg
    /\ pf.arg.type = "HelloAck" /\ pf.arg.verification_code = Some(<<Quote, Backslash>>)
    /\ contains(pf.res.json, <<Backslash, Quote, Backslash, Backslash>>)

\* Every variant made the round trip, a HelloAck without a code among them.
C24_NoCodeReached ==
    /\ pf.fn = "to_json" /\ pf.res # Pending /\ pf.res.parsed = pf.arg
    /\ pf.arg.type = "HelloAck" /\ pf.arg.verification_code = None
C24_SyncHelloReached ==
    /\ pf.fn = "to_json" /\ pf.res # Pending /\ pf.res.parsed = pf.arg
    /\ pf.arg.type = "SyncHello" /\ pf.arg.initiator_priority = MaxWireInt

\* ---- C25
\* Device d runs this code (it is not a non-conforming peer).
IsCode(d) == cfg.driver[d] # "rogue"
\* The file of device d holds the key data of public_key.
HasKey(d, public_key) == key_already_authorized(ykeys[d], public_key)
\* What device d has read on its stream so far.
YRecv(d) == IF yst[d].role = "I" THEN YCh(d).irecv ELSE YCh(d).rrecv
\* What device d's stream holds towards the peer, before and after a step.
YOut(d) == IF yst[d].role = "I" THEN YCh(d).i2r ELSE YCh(d).r2i
YOutNext(d) == IF yst[d].role = "I" THEN ychan'[yst[d].conn].i2r ELSE ychan'[yst[d].conn].r2i
AcceptingAck(m) == m.type = "SyncHelloAck" /\ m.accept_sync
SuccessComplete(m) == m.type = "SyncComplete" /\ m.success

\* Where a handler stands tells what it has done: past the install, past the
\* accepting ack, past the peer's SyncComplete.
StepsBehind(d) ==
    /\ ypc[d] \in {"R_AddKey", "R_WriteAck", "R_ReadComplete", "R_WriteComplete"} =>
          /\ YRecv(d)[1].type = "SyncHello"
          /\ YRecv(d)[1].public_key = yst[d].peer_key
    /\ ypc[d] \in {"R_WriteAck", "R_ReadComplete", "R_WriteComplete"} =>
          HasKey(d, yst[d].peer_key)
    /\ ypc[d] = "R_WriteComplete" =>
          Len(YRecv(d)) = 2 /\ SuccessComplete(YRecv(d)[2])
    /\ ypc[d] \in {"I_AddKey", "I_WriteComplete", "I_ReadComplete"} =>
          /\ Len(YRecv(d)) = 1 /\ AcceptingAck(YRecv(d)[1])
          /\ YRecv(d)[1].public_key = yst[d].peer_key
    /\ ypc[d] \in {"I_WriteComplete", "I_ReadComplete"} =>
          HasKey(d, yst[d].peer_key)

\* A step in which device d writes a line, or changes its authorized_keys,
\* is the step of the handler that the order allows.
StepInOrder(d) ==
    /\ (ypc[d] \in HandlerPcs /\ yst[d].conn # 0 /\ yst'[d].conn = yst[d].conn
            /\ Len(YOutNext(d)) > Len(YOut(d))) =>
          LET m == YOutNext(d)[Len(YOutNext(d))] IN
          /\ m.type = "SyncHello" => ypc[d] = "I_WriteHello" /\ YRecv(d) = <<>>
          /\ AcceptingAck(m) => ypc[d] = "R_WriteAck" /\ HasKey(d, yst[d].peer_key)
          /\ (m.type = "SyncComplete" /\ yst[d].role = "I") =>
                ypc[d] = "I_WriteComplete" /\ HasKey(d, yst[d].peer_key)
          /\ (m.type = "SyncComplete" /\ yst[d].role = "R") =>
                ypc[d] = "R_WriteComplete" /\ SuccessComplete(YRecv(d)[2])
    /\ ykeys'[d] # ykeys[d] =>
          /\ ypc[d] \in {"I_AddKey", "R_AddKey"}
          /\ ypc[d] = "R_AddKey" => YOut(d) = <<>> /\ Len(YRecv(d)) = 1
          /\ ykeys'[d] = append_key(ykeys[d], yst[d].peer_key)
    /\ ypc[d] \in {"R_WriteAck", "R_ReadComplete", "R_WriteComplete"} =>
          ykeys'[d] = ykeys[d]

\* C25: in every sync session the initiator sends SyncHello first; the
\* responder installs the initiator's key and only then sends the accepting
\* SyncHelloAck; the initiator installs the responder's key only after reading
\* that ack and only then sends SyncComplete; the responder sends its
\* SyncComplete only after reading the initiator's, and installs nothing after
\* its first install.
C25_SyncStepOrder ==
    /\ [](\A d \in Devs : IsCode(d) => StepsBehind(d))
    /\ [][\A d \in Devs : IsCode(d) => StepInOrder(d)]_vars

\* A session in which both sides are this code ran through: each holds the
\* other's key, and the responder is about to send the last message.
C25_Witness ==
    /\ IsCode(1) /\ IsCode(2)
    /\ ypc[2] = "R_WriteComplete" /\ ypc[1] = "I_ReadComplete"
    /\ yst[1].conn = yst[2].conn
    /\ HasKey(1, KeyB.public_key) /\ HasKey(2, KeyA.public_key)
    /\ YCh(2).rrecv = <<SyncHello(cfg.yver[1], cfg.yname[1], cfg.yprio[1], KeyA, DevUser(1)),
                        SyncComplete(TRUE)>>

\* ---- C26
\* The state of the per-connection handler of connection c.
HandlerState(pc, res) ==
    CASE pc = "None" -> "Listening"
      [] pc \in {"ReadHello", "EvPairingRequest", "WriteHelloAck"} -> "AwaitHello"
      [] pc \in {"ReadKeyExchange", "EvKeyReceived", "AddKeyCheck", "AddKeyAppend",
                 "WriteKeyAccepted", "WritePairingComplete", "EvPairingComplete"} ->
             "AwaitKeyExchange"
      [] pc = "WriteError" -> "Error"
      [] pc = "Done" -> IF res = OkUnit THEN "Complete" ELSE "Error"
HandlerEdges ==
    { <<"Listening", "AwaitHello">>, <<"AwaitHello", "AwaitKeyExchange">>,
      <<"AwaitKeyExchange", "Complete">> }
        \cup { <<s, "Error">> : s \in {"AwaitHello", "AwaitKeyExchange", "Error"} }

\* Everything the handler of c wrote that was not lost to a closed client end.
ServerWrote(c) == crecv[c] \o s2c[c]
\* add_authorized_key returned Ok for the key of c's KeyExchange: its key
\* data, or the line appended for it, is in the file.
KeyInstalled(c) ==
    \/ key_already_authorized(authorized_keys, hst[c].kx.public_key)
    \/ contains(authorized_keys, hst[c].kx.public_key \o <<NL>>)
\* The session of c began with a Hello of the server's version.
MatchingHello(c) ==
    /\ srecv[c] # <<>>
    /\ srecv[c][1].type = "Hello" /\ srecv[c][1].version = cfg.sver

HandlerPast(c) ==
    /\ HandlerState(hpc[c], hres[c]) \in {"AwaitKeyExchange", "Complete"} =>
          /\ MatchingHello(c)
          /\ cOpen[c] => \E i \in 1..Len(ServerWrote(c)) : ServerWrote(c)[i].type = "HelloAck"
    /\ (hpc[c] \in {"WriteKeyAccepted", "WritePairingComplete", "EvPairingComplete"}
           \/ HandlerState(hpc[c], hres[c]) = "Complete") =>
          hst[c].kx.type = "KeyExchange" /\ KeyInstalled(c)
    /\ \A i \in 1..Len(ServerWrote(c)) :
          ServerWrote(c)[i].type \in {"KeyAccepted", "PairingComplete"} =>
             /\ KeyInstalled(c) /\ MatchingHello(c)
             /\ ServerWrote(c)[1].type = "HelloAck"
             /\ ServerWrote(c)[i].type = "PairingComplete" =>
                   i > 1 /\ ServerWrote(c)[i - 1].type = "KeyAccepted"

HandlerStep(c) ==
    /\ HandlerState(hpc'[c], hres'[c]) # HandlerState(hpc[c], hres[c]) =>
          <<HandlerState(hpc[c], hres[c]), HandlerState(hpc'[c], hres'[c])>> \in HandlerEdges
    /\ (hpc[c] = "AddKeyAppend" /\ hpc'[c] = "WriteKeyAccepted") =>
          authorized_keys' = append_key(authorized_keys, hst[c].kx.public_key)

\* C26: a per-connection server handler moves only along AwaitHello,
\* AwaitKeyExchange, Complete, or to Error from any state; the key file
\* changes only by the append of a handler that has read a Hello of matching
\* version and has sent HelloAck; KeyAccepted and PairingComplete are sent
\* only after add_authorized_key succeeded.
C26_HandlerStates ==
    /\ [](cfg.srvKind = "impl" => \A c \in Conns : HandlerPast(c))
    /\ [][cfg.srvKind = "impl" =>
            /\ \A c \in Conns : HandlerStep(c)
            /\ authorized_keys' # authorized_keys =>
                  \E c \in Conns :
                     /\ hpc[c] = "AddKeyAppend" /\ hpc'[c] = "WriteKeyAccepted"
                     /\ MatchingHello(c)
                     /\ HandlerState(hpc[c], hres[c]) = "AwaitKeyExchange"]_vars

\* A handler completed: Hello, HelloAck, KeyExchange, the append, KeyAccepted,
\* PairingComplete.
C26_Witness ==
    \E c \in Conns :
        /\ cfg.srvKind = "impl"
        /\ HandlerState(hpc[c], hres[c]) = "Complete"
        /\ contains(authorized_keys, hst[c].kx.public_key \o <<NL>>)
        /\ Len(ServerWrote(c)) = 3 /\ ServerWrote(c)[3].type = "PairingComplete"

\* A handler went to Error from AwaitKeyExchange, the key file untouched.
C26_ErrorReached ==
    \E c \in Conns :
        /\ cfg.srvKind = "impl" /\ hpc[c] = "Done" /\ hres[c] = Err("Handshake", "Expected KeyExchange")
        /\ authorized_keys = cfg.file0[1]

\* ---- C27
\* Both devices run SyncHandler::run.
BothRun == cfg.driver[1] = "run" /\ cfg.driver[2] = "run"
BothReturned == ypc[1] = "Returned" /\ ypc[2] = "Returned"
\* Device d is inside handle_as_initiator, waiting for the SyncHelloAck of a
\* peer that has not accepted the connection: the connection is still in the
\* peer's backlog and the SyncHello on it unread.
BlockedAsInitiator(d) ==
    /\ ypc[d] = "I_ReadAck" /\ yst[d].role = "I"
    /\ YIn(d) = <<>> /\ YPeerOpen(d) /\ ~YCh(d).broken
    /\ \E i \in 1..Len(ynet[Other(d)].backlog) : ynet[Other(d)].backlog[i] = yst[d].conn
BothBlocked == BlockedAsInitiator(1) /\ BlockedAsInitiator(2)

\* C27: two devices that run SyncHandler::run at the same time and discover
\* each other always terminate: each run returns a SyncResult or the Timeout
\* error, and they never are both blocked as initiator, each waiting for the
\* other's SyncHelloAck while neither accepts the other's connection.
C27_ConcurrentRunsTerminate ==
    /\ [](BothRun => ~BothBlocked)
    /\ (BothRun ~> BothReturned)

\* What holds: two concurrent runs both return, unless they come to be both
\* blocked as initiator.
C27_TerminateUnlessBothInitiate == BothRun ~> (BothReturned \/ BothBlocked)

\* Both runs found the other, connected and sent SyncHello; each awaits the
\* ack inside its select branch, so neither accepts, and neither polls its
\* timeout, which has elapsed: no step of either device is possible.
C27_Witness ==
    /\ BothRun /\ BothBlocked
    /\ ynet[1].timer = "elapsed" /\ ynet[2].timer = "elapsed"
    /\ \A d \in Devs : ~ENABLED (run(d) \/ handle_as_initiator(d) \/ handle_as_responder(d))

\* ---- C28
InitiatorPcs ==
    {"I_Connect", "I_WriteHello", "I_ReadAck", "I_AddKey", "I_WriteComplete", "I_ReadComplete"}
\* Device d acts as initiator towards the other device.
ActsAsInitiator(d) == ypc[d] \in InitiatorPcs /\ yst[d].peer = Other(d)

\* C28: when two devices running SyncHandler::run find each other, the one
\* with the higher initiator_priority becomes the initiator and the other
\* yields: a device acts as initiator only if its priority is the higher, and
\* the two never both act as initiator toward each other.
C28_PriorityDecidesInitiator ==
    BothRun =>
        /\ \A d \in Devs : ActsAsInitiator(d) => cfg.yprio[d] > cfg.yprio[Other(d)]
        /\ ~(ActsAsInitiator(1) /\ ActsAsInitiator(2))

\* What holds: run starts handle_as_initiator for every peer that arrives with
\* an address while it waits in select!, and handle_as_responder goes on to
\* install the key of every SyncHello of its version that is not its own,
\* whatever the two priorities are.
C28_FirstFoundInitiates ==
    [][BothRun =>
        \A d \in Devs :
           /\ (ypc[d] = "Select" /\ ynet[d].found # <<>>
                  /\ ynet'[d].found = Tail(ynet[d].found)
                  /\ Head(ynet[d].found).has_address) =>
                 ypc'[d] = "I_Connect"
           /\ (ypc[d] = "R_ReadHello" /\ ypc'[d] # "R_ReadHello"
                  /\ ~YCh(d).broken /\ YIn(d) # <<>>
                  /\ Head(YIn(d)).type = "SyncHello"
                  /\ Head(YIn(d)).version = cfg.yver[d]
                  /\ Head(YIn(d)).device_name # cfg.yname[d]) =>
                 ypc'[d] = "R_AddKey"]_vars

\* The device of lower priority initiated and the device of higher priority
\* answered as responder: both runs returned Ok.
C28_Witness ==
    /\ BothRun /\ cfg.yprio[1] < cfg.yprio[2]
    /\ ypc[1] = "Returned" /\ yres[1].st = "ok" /\ yst[1].role = "I"
    /\ ypc[2] = "Returned" /\ yres[2].st = "ok" /\ yst[2].role = "R"

\* Both devices act as initiator toward each other at once, each with its
\* SyncHello written.
C28_BothInitiateReached ==
    /\ BothRun /\ ypc[1] = "I_ReadAck" /\ ypc[2] = "I_ReadAck"
    /\ yst[1].conn # yst[2].conn

\* ---- C29
\* Both devices are this code, and each has been through a handler that has
\* returned: a session between them has ended on both sides.
SessionEnded ==
    /\ IsCode(1) /\ IsCode(2)
    /\ \A d \in Devs : ypc[d] \notin HandlerPcs /\ yst[d].last # Pending
\* Device d holds the other device's key.
HoldsPeerKey(d) == HasKey(d, DevKey(Other(d)).public_key)
\* Device d has read, as responder, a SyncHello carrying the other's key.
ReadPeerHello(d) ==
    \E k \in SyncConns :
        /\ yconn[k].to = d /\ ychan[k].rrecv # <<>>
        /\ ychan[k].rrecv[1].type = "SyncHello"
        /\ ychan[k].rrecv[1].public_key = DevKey(Other(d)).public_key

\* C29: after a sync session between A and B has ended on both sides,
\* successfully or not, A's authorized keys contain B's key if and only if
\* B's contain A's: no session leaves a one-sided install.
C29_NoOneSidedInstall == SessionEnded => (HoldsPeerKey(1) <=> HoldsPeerKey(2))

\* What holds: a device that holds the other's key while the other does not
\* hold its key installed it as responder; an initiator never holds a key
\* alone.
C29_OnlyResponderInstallsAlone ==
    (IsCode(1) /\ IsCode(2)) =>
        \A d \in Devs : (HoldsPeerKey(d) /\ ~HoldsPeerKey(Other(d))) => ReadPeerHello(d)

\* The responder installed the initiator's key and accepted; the initiator
\* failed before its own install; both handlers returned an error and the
\* responder's file keeps the key.
C29_Witness ==
    /\ SessionEnded
    /\ cfg.driver[1] = "initiator" /\ cfg.driver[2] = "responder"
    /\ HoldsPeerKey(2) /\ ~HoldsPeerKey(1)
    /\ yres[1].st = "err" /\ yres[2].st = "err"

\* A session that ended with both keys installed.
C29_BothInstalledReached ==
    SessionEnded /\ HoldsPeerKey(1) /\ HoldsPeerKey(2) /\ yres[1].st = "ok" /\ yres[2].st = "ok"

\* ---- C30
\* The two ends of connection k are this code.
CodeSession(k) == yconn[k] # NoConn /\ IsCode(yconn[k].from) /\ IsCode(yconn[k].to)
\* The handler of device d on connection k has returned Ok(SyncResult).
ReturnedOk(d, k) ==
    /\ yst[d].conn = k /\ ypc[d] \notin HandlerPcs
    /\ yst[d].last.st = "ok"

\* C30: if either side of a sync session returns Ok(SyncResult), then at that
\* moment the responder has installed the initiator's key and the initiator
\* has installed the responder's key.
C30_OkMeansBothInstalled ==
    \A k \in SyncConns :
        (CodeSession(k) /\ (ReturnedOk(yconn[k].from, k) \/ ReturnedOk(yconn[k].to, k))) =>
            /\ HoldsKey(ykeys[yconn[k].to], DevKey(yconn[k].from))
            /\ HoldsKey(ykeys[yconn[k].from], DevKey(yconn[k].to))

\* The responder returned Ok first, the initiator still reading the last
\* SyncComplete; both files hold the other's key.
C30_Witness ==
    \E k \in SyncConns :
        /\ CodeSession(k) /\ ReturnedOk(yconn[k].to, k)
        /\ ypc[yconn[k].from] = "I_ReadComplete" /\ yst[yconn[k].from].conn = k
        /\ HoldsKey(ykeys[yconn[k].to], DevKey(yconn[k].from))
        /\ HoldsKey(ykeys[yconn[k].from], DevKey(yconn[k].to))

\* The responder returned Ok and the initiator an error: the last
\* SyncComplete was lost to a reset, both keys installed.
C30_OneOkReached ==
    \E k \in SyncConns :
        /\ CodeSession(k) /\ ReturnedOk(yconn[k].to, k)
        /\ yst[yconn[k].from].conn = k /\ yst[yconn[k].from].last.st = "err"
        /\ ypc[yconn[k].from] \notin HandlerPcs

\* ---- C31
PairKeys == {KeyA, KeyB, KeyOld}
\* The store holds an entry for kp that it did not hold before the server
\* started.
StoreGained(kp) == HoldsKey(authorized_keys, kp) /\ ~HoldsKey(cfg.file0[1], kp)
\* The handler of connection c has read a KeyExchange offering kp.
Offered(c, kp) == hst[c].kx.type = "KeyExchange" /\ hst[c].kx.public_key = kp.public_key
\* pair on connection c has returned an error.
PairFailed(c) == cfg.cliKind[c] = "impl" /\ cpc[c] = "Done" /\ cres[c].st = "err"

\* C31: the server's store gains a client's key only in sessions whose pair()
\* returns success: a key the store has gained was offered in a session whose
\* pair has not returned an error.
C31_StoreGainsOnlyOnSuccess ==
    cfg.srvKind = "impl" =>
        \A kp \in PairKeys : StoreGained(kp) =>
            \E c \in Conns : Offered(c, kp) /\ ~PairFailed(c)

\* What holds: a key the store has gained was offered in a KeyExchange that a
\* handler read after a Hello of its version, and a pair that returned
\* success finds its key in the store.
C31_StoreGainsOnlyOffered ==
    cfg.srvKind = "impl" =>
        /\ \A kp \in PairKeys : StoreGained(kp) =>
              \E c \in Conns : Offered(c, kp) /\ MatchingHello(c)
        /\ \A c \in Conns : (cfg.cliKind[c] = "impl" /\ cres[c].st = "ok") =>
              HoldsKey(authorized_keys, cfg.ckey[c])

\* The handler appended the client's key; the connection was reset before the
\* client read KeyAccepted; pair returned an error and the key stays.
C31_Witness ==
    \E c \in Conns :
        /\ cfg.srvKind = "impl" /\ PairFailed(c) /\ cres[c] = Err("Io", "read")
        /\ Offered(c, cfg.ckey[c]) /\ StoreGained(cfg.ckey[c])
        /\ \A b \in Conns \ {c} : hst[b].kx.type # "KeyExchange"

\* pair returned success and the store holds its key.
C31_SuccessReached ==
    \E c \in Conns :
        /\ cfg.srvKind = "impl" /\ cfg.cliKind[c] = "impl" /\ cres[c].st = "ok"
        /\ StoreGained(cfg.ckey[c])

\* ---- C32
\* The server end (handle_client) or the client end (pair) of connection c
\* writes a line in this step.
ServerWrites(c) == cfg.srvKind = "impl" /\ Len(s2c'[c]) > Len(s2c[c])
ClientWrites(c) == cfg.cliKind[c] \in {"impl", "probe"} /\ Len(c2s'[c]) > Len(c2s[c])
\* The step puts one line on the wire.
OneLine(before, after) == Len(after) = Len(before) + 1
\* The lines the client end wrote that were not lost to a closed server end.
ClientWrote(c) == srecv[c] \o c2s[c]
\* Likewise for the two ends of sync connection k.
InitiatorWrites(k) ==
    yconn[k] # NoConn /\ IsCode(yconn[k].from) /\ Len(ychan'[k].i2r) > Len(ychan[k].i2r)
ResponderWrites(k) ==
    yconn[k] # NoConn /\ IsCode(yconn[k].to) /\ Len(ychan'[k].r2i) > Len(ychan[k].r2i)
InitiatorWrote(k) == ychan[k].rrecv \o ychan[k].i2r
ResponderWrote(k) == ychan[k].irecv \o ychan[k].r2i

\* The side that opens the session writes its next line when it has read as
\* many lines as it wrote; the side that answers, when it has read one more.
OpenerInTurn(wrote, read) == Len(wrote) = Len(read)
AnswererInTurn(wrote, read) == Len(wrote) = Len(read) - 1

\* C32: within one TCP session message order is strict request/response:
\* each side sends at most one message per turn, and sends its next message
\* only after it has received the peer's reply to the previous one.
C32_StrictRequestResponse ==
    [][/\ \A c \in Conns :
            /\ ClientWrites(c) =>
                  OpenerInTurn(ClientWrote(c), crecv[c]) /\ OneLine(c2s[c], c2s'[c])
            /\ ServerWrites(c) =>
                  AnswererInTurn(ServerWrote(c), srecv[c]) /\ OneLine(s2c[c], s2c'[c])
       /\ \A k \in SyncConns :
            /\ InitiatorWrites(k) => OpenerInTurn(InitiatorWrote(k), ychan[k].irecv)
            /\ ResponderWrites(k) => AnswererInTurn(ResponderWrote(k), ychan[k].rrecv)]_vars

\* What holds: every side writes only in its turn and one line per turn, but
\* for the server's answer to KeyExchange, which is two lines (PairingComplete
\* follows KeyAccepted with no line of the client between them), and for the
\* scanner's one turn, which is the Hello line and an empty line.
C32_RequestResponseButLastTurn ==
    [][/\ \A c \in Conns :
            /\ ClientWrites(c) =>
                  /\ OpenerInTurn(ClientWrote(c), crecv[c])
                  /\ \/ OneLine(c2s[c], c2s'[c])
                     \/ /\ cfg.cliKind[c] = "probe"
                        /\ c2s'[c] = c2s[c] \o <<Hello(1, ScannerName), EmptyLine>>
            /\ ServerWrites(c) =>
                  /\ OneLine(s2c[c], s2c'[c])
                  /\ \/ AnswererInTurn(ServerWrote(c), srecv[c])
                     \/ /\ s2c'[c][Len(s2c'[c])].type = "PairingComplete"
                        /\ Len(ServerWrote(c)) = 2 /\ ServerWrote(c)[2].type = "KeyAccepted"
                        /\ Len(srecv[c]) = 2 /\ srecv[c][2].type = "KeyExchange"
       /\ \A k \in SyncConns :
            /\ InitiatorWrites(k) => OpenerInTurn(InitiatorWrote(k), ychan[k].irecv)
            /\ ResponderWrites(k) => AnswererInTurn(ResponderWrote(k), ychan[k].rrecv)]_vars

\* The server has written KeyAccepted and PairingComplete in one turn: both
\* are on the wire before the client has read either.
C32_Witness ==
    \E c \in Conns :
        /\ cfg.srvKind = "impl" /\ cfg.cliKind[c] = "impl"
        /\ cpc[c] = "ReadKeyAccepted"
        /\ Len(s2c[c]) = 2
        /\ s2c[c][1].type = "KeyAccepted" /\ s2c[c][2].type = "PairingComplete"

\* The scanner has written its Hello and the empty line in one turn, and the
\* handler that answered the Hello reads the empty line where it expects
\* KeyExchange.
C32_ProbeTwoLinesReached ==
    \E c \in Conns :
        /\ cfg.srvKind = "impl" /\ cfg.cliKind[c] = "probe"
        /\ hpc[c] = "ReadKeyExchange" /\ c2s[c] = <<EmptyLine>>

\* A sync session in which each side wrote two lines, one per turn.
C32_SyncAlternatesReached ==
    \E k \in SyncConns :
        /\ CodeSession(k)
        /\ Len(ychan[k].rrecv) = 2 /\ Len(ychan[k].irecv) = 2

\* ---- C35
\* A scanner probes the server waiting in handle_one (connection 1) and a
\* client pairs with the same server (connection 2).
ProbeBesidePair ==
    /\ cfg.scen = "pair" /\ cfg.srvKind = "impl" /\ cfg.srvMode = "handle_one"
    /\ cfg.cliKind[1] = "probe" /\ cfg.cliKind[2] = "impl"

\* The probe is over: it read HelloAck and dropped its stream.
ProbeAnswered == cpc[1] = "Done" /\ cres[1].st = "ok"

PairOk(c) == cpc[c] = "Done" /\ cres[c].st = "ok"

\* C35: a probe (Hello answered by HelloAck, then disconnect) of a server
\* waiting in handle_one does not use up the single-shot pairing: a pair begun
\* after the probe does not fail unless the transport does, and it completes
\* successfully.
C35_ProbeKeepsOneShot ==
    /\ [][(ProbeBesidePair /\ ProbeAnswered /\ cpc[2] = "Idle" /\ faults' = 0 /\ cpc'[2] = "Done")
              => cres'[2].st = "ok"]_vars
    /\ ((ProbeBesidePair /\ ProbeAnswered /\ cpc[2] = "Idle") ~> (PairOk(2) \/ faults > 0))

\* What the code does: the connection of the probe is the one connection
\* handle_one accepts; handle_client answers the Hello, fails on the empty line
\* or the end of the stream, handle_one returns that error, and no pair to this
\* server completes.
C35_ProbeUsesUpHandleOne ==
    (ProbeBesidePair /\ hpc[1] # "None") =>
        /\ hpc[2] = "None"
        /\ ~PairOk(2)
        /\ (spc = "Returned" => sres.st = "err")
        /\ authorized_keys = cfg.file0[1]

\* The probe was answered, handle_one has returned an error, and the pair that
\* began afterwards was refused.
C35_Witness ==
    /\ ProbeBesidePair /\ ProbeAnswered /\ faults = 0
    /\ spc = "Returned" /\ sres.st = "err"
    /\ cpc[2] = "Done" /\ cres[2] = Err("Network", "Failed to connect")
    /\ crecv[2] = <<>>

\* Under run the same probe leaves the server accepting, and the pair completes.
C35_RunSurvivesProbe ==
    /\ cfg.scen = "pair" /\ cfg.srvMode = "run" /\ cfg.cliKind[1] = "probe"
    /\ ProbeAnswered /\ hpc[1] = "Done" /\ PairOk(2) /\ faults = 0

\* ---- C33
\* The events of one successful pairing, in the order of their send calls.
PairingEvents == <<"Started", "ClientConnected", "PairingRequest", "KeyReceived", "PairingComplete">>

HandleOneMode == cfg.scen = "pair" /\ cfg.srvKind = "impl" /\ cfg.srvMode = "handle_one"
HandleOneOk == HandleOneMode /\ spc = "Returned" /\ sres.st = "ok"

\* The step sends the PairingComplete event.
EmitsPairingComplete ==
    /\ Len(evlog') = Len(evlog) + 1
    /\ evlog'[Len(evlog')] = "PairingComplete"

\* C33: for a pairing session that completes successfully under handle_one the
\* server emits Started, ClientConnected, PairingRequest, KeyReceived,
\* PairingComplete, in this order and each exactly once; the PairingComplete
\* event is emitted only after the key was installed and the KeyAccepted and
\* PairingComplete messages were written to the client.
C33_EventsInOrder ==
    /\ [](HandleOneMode => \E n \in 0..Len(PairingEvents) : evlog = SubSeq(PairingEvents, 1, n))
    /\ [](HandleOneOk => evlog = PairingEvents)
    /\ [][(HandleOneMode /\ EmitsPairingComplete) =>
             /\ hpc[scur] = "EvPairingComplete"
             /\ hst[scur].kx.type = "KeyExchange"
             /\ key_already_authorized(authorized_keys, hst[scur].kx.public_key)
             /\ (cOpen[scur] \/ cfg.cliKind[scur] = "impl") =>
                   /\ Len(ServerWrote(scur)) = 3
                   /\ ServerWrote(scur)[2].type = "KeyAccepted"
                   /\ ServerWrote(scur)[3].type = "PairingComplete"]_vars

\* handle_one and pair have both returned Ok and the five events were sent.
C33_Witness ==
    /\ HandleOneOk /\ PairOk(1) /\ evlog = PairingEvents
    /\ HoldsKey(authorized_keys, cfg.ckey[1])

\* A session that failed at the version check sent three of them only.
C33_FailedSessionReached ==
    /\ HandleOneMode /\ spc = "Returned" /\ sres.st = "err"
    /\ evlog = SubSeq(PairingEvents, 1, 3)

\* ---- C34
\* run, with a receiver that is alive and does not drain the event channel.
RunStalled ==
    cfg.scen = "pair" /\ cfg.srvKind = "impl" /\ cfg.srvMode = "run" /\ cfg.consumer = "stalled"

\* The positions at which handle_client awaits event_tx.send.
EventPcs == {"EvPairingRequest", "EvKeyReceived", "EvPairingComplete"}

\* C34: protocol progress does not depend on the event consumer: when the
\* receiver is alive but does not drain the bounded channel, run still accepts
\* new connections and the handlers still complete their pairings, so every
\* pair that has connected returns, unless the transport fails.
C34_ProgressWithoutConsumer ==
    \A c \in Conns :
        (RunStalled /\ cfg.cliKind[c] = "impl" /\ cpc[c] = "WriteHello")
            ~> (cpc[c] = "Done" \/ faults > 0)

\* What the code does: the channel never holds more than its capacity, and
\* while it is full and not drained no send returns: run stays before the
\* spawn of the handler of the connection it accepted and accepts no other,
\* and a handler at a send stays there.
C34_FullChannelBlocks ==
    /\ [](cfg.consumer = "stalled" => Len(evlog) <= EventCap)
    /\ [][(RunStalled /\ Len(evlog) = EventCap) =>
             /\ evlog' = evlog
             /\ spc = "EvClientConnected" => (spc' = spc /\ scur' = scur /\ hpc'[scur] = "None")
             /\ \A c \in Conns : hpc[c] \in EventPcs => hpc'[c] = hpc[c]]_vars

\* The channel is full; run waits at the send of ClientConnected for the
\* second connection, whose client waits for HelloAck; the handler of the first
\* waits at the send of KeyReceived, and its client for KeyAccepted. Nothing
\* has failed.
C34_Witness ==
    /\ RunStalled /\ faults = 0 /\ Len(evlog) = EventCap
    /\ spc = "EvClientConnected" /\ scur = 2
    /\ cfg.cliKind = <<"impl", "impl">>
    /\ hpc[1] = "EvKeyReceived" /\ cpc[1] = "ReadKeyAccepted"
    /\ hpc[2] = "None" /\ cpc[2] = "ReadHelloAck"

\* With a draining receiver the same two clients both complete.
C34_DrainedReached ==
    /\ cfg.srvMode = "run" /\ cfg.consumer = "drain" /\ cfg.cliKind = <<"impl", "impl">>
    /\ PairOk(1) /\ PairOk(2)

\* ---- C36
\* C36: during scan_ips at most 100 probes are in flight at any moment, and
\* every candidate address of the input list is probed exactly once before
\* scan_ips returns.
C36_WindowAndOnce ==
    pf.fn = "scan_ips" =>
        /\ InFlight <= ScanWindow
        /\ pf.res.probed <= 1
        /\ pf.res.next - 1 = pf.res.results + InFlight
        /\ pf.res.st = "returned" =>
              /\ pf.res.probed = 1 /\ pf.res.wst = "done"
              /\ pf.res.next = pf.arg.ips + 1
              /\ pf.res.results = pf.arg.ips

\* The window is full, the watched address, the last of 102, is not yet taken
\* from the iterator, and two addresses wait.
C36_Witness ==
    /\ pf.fn = "scan_ips" /\ pf.arg.ips = MaxCandidates /\ pf.arg.w = MaxCandidates
    /\ InFlight = ScanWindow /\ pf.res.next = ScanWindow + 1
    /\ pf.res.wst = "queued" /\ pf.res.st = "polling"

\* scan_ips has returned after probing the 102 addresses.
C36_ReturnedReached ==
    /\ pf.fn = "scan_ips" /\ pf.arg.ips = MaxCandidates /\ pf.res.st = "returned"
    /\ pf.res.results = MaxCandidates /\ pf.res.probed = 1

\* ---- C37
\* The candidates the claim describes, as a set: the hosts .1 to .254 of the
\* /24 of every local address outside 10.x and of the four /24 blocks of the /22
\* of every local address inside it, less the local addresses.
ExpectedCandidates(local_ips) ==
    LET locals == {local_ips[i] : i \in 1..Len(local_ips)}
        thirds(ip) == IF ip[1] = 10 THEN base_third(ip[3])..(base_third(ip[3]) + 3) ELSE {ip[3]}
    IN UNION { { <<ip[1], ip[2], t, last>> : t \in thirds(ip), last \in 1..254 } : ip \in locals }
         \ locals

Elements(list) == {list[i] : i \in 1..Len(list)}

\* The local addresses that scan keeps hold one of 10.x whose third octet is in 252..255.
TopOfRange(addrs) ==
    \E i \in 1..Len(local_ips_of(addrs)) :
        local_ips_of(addrs)[i][1] = 10 /\ local_ips_of(addrs)[i][3] >= 252

ScanDone == pf.fn = "scan" /\ pf.res # Pending

\* C37: for every set of non-loopback local IPv4 addresses, scan builds its
\* candidate list from the /24 block of each address whose first octet is not
\* 10 (hosts .1 to .254) and from the 4 adjacent /24 blocks of the /22 of each
\* address whose first octet is 10, less the machine's own local addresses, and
\* the list contains no address twice even when several local addresses fall
\* into the same block.
C37_CandidateList ==
    ScanDone =>
        /\ pf.res.st = "ok"
        /\ Elements(pf.res.all_ips_to_scan) = ExpectedCandidates(local_ips_of(pf.arg.addrs))
        /\ Cardinality(Elements(pf.res.all_ips_to_scan)) = Len(pf.res.all_ips_to_scan)

\* What holds: the same, for the lists without a 10.x address whose third
\* octet is in 252..255; with one, a build with overflow checks panics and a
\* build without them leaves out the four blocks of that address, the list
\* still holding no address twice.
C37_CandidateListBelowTop ==
    ScanDone =>
        IF ~TopOfRange(pf.arg.addrs)
        THEN /\ pf.res.st = "ok"
             /\ Elements(pf.res.all_ips_to_scan) = ExpectedCandidates(local_ips_of(pf.arg.addrs))
             /\ Cardinality(Elements(pf.res.all_ips_to_scan)) = Len(pf.res.all_ips_to_scan)
        ELSE IF pf.arg.build = "debug"
        THEN pf.res.st = "panic"
        ELSE /\ pf.res.st = "ok"
             /\ Elements(pf.res.all_ips_to_scan) =
                   ExpectedCandidates(SelectSeq(local_ips_of(pf.arg.addrs),
                                                LAMBDA ip : ~(ip[1] = 10 /\ ip[3] >= 252)))
                     \ Elements(local_ips_of(pf.arg.addrs))
             /\ Cardinality(Elements(pf.res.all_ips_to_scan)) = Len(pf.res.all_ips_to_scan)

\* The local address 10.0.252.3 alone, in a build without overflow checks:
\* scan hands an empty list to scan_ips.
C37_Witness ==
    /\ ScanDone /\ pf.arg.addrs = << <<10, 0, 252, 3>> >> /\ pf.arg.build = "release"
    /\ pf.res.st = "ok" /\ pf.res.all_ips_to_scan = <<>>

\* Two local addresses of one /22: its 1016 hosts less the two, each once.
C37_SharedBlockReached ==
    /\ ScanDone /\ pf.arg.addrs = << <<10, 0, 5, 7>>, <<10, 0, 6, 9>> >>
    /\ pf.res.st = "ok" /\ Len(pf.res.all_ips_to_scan) = 1014
    /\ pf.res.scanned_subnets = { <<10, 0, 4, 22>> }

\* One local address outside 10.x: the 254 hosts of its /24 less itself.
C37_PlainBlockReached ==
    /\ ScanDone /\ pf.arg.addrs = << <<192, 168, 1, 10>> >>
    /\ Len(pf.res.all_ips_to_scan) = 253

\* ---- C38
\* The third octets of the candidates scan lists in the /16 of local address ip.
ThirdsListed(ip) ==
    { cand[3] : cand \in { x \in Elements(pf.res.all_ips_to_scan) : x[1] = ip[1] /\ x[2] = ip[2] } }

\* The 10.x addresses among the local addresses scan keeps.
VpnLocals == { ip \in Elements(local_ips_of(pf.arg.addrs)) : ip[1] = 10 }

\* C38: for every local address 10.a.b.c, including those with b in 252..255,
\* the computation of the four /24 blocks base..base+3 stays within the 8-bit
\* octet range: it neither overflows nor yields an empty block range.
C38_FourBlocksInOctetRange ==
    ScanDone =>
        /\ pf.res.st # "panic"
        /\ \A ip \in VpnLocals :
              /\ base_third(ip[3]) + 3 < U8
              /\ base_third(ip[3])..(base_third(ip[3]) + 3) \subseteq ThirdsListed(ip)

\* What holds: the blocks base..base+3 are themselves octets, but the
\* exclusive end of the range, base + 4, is 256 for b in 252..255: a build with
\* overflow checks panics there, and in a build without them the end wraps to
\* 0 and the range 252..0 is empty. Below 252 the four blocks are listed.
C38_EndOfRangeOverflows ==
    ScanDone =>
        /\ pf.res.st = "panic" <=> (pf.arg.build = "debug" /\ TopOfRange(pf.arg.addrs))
        /\ \A ip \in VpnLocals :
              /\ base_third(ip[3]) + 3 < U8
              /\ pf.res.st = "ok" =>
                    IF ip[3] >= 252
                    THEN ThirdsListed(ip) \cap 252..255 = {}
                    ELSE base_third(ip[3])..(base_third(ip[3]) + 3) \subseteq ThirdsListed(ip)

\* The local address 10.1.255.1 in a build with overflow checks: scan panics.
C38_Witness ==
    /\ ScanDone /\ pf.arg.addrs = << <<10, 1, 255, 1>> >> /\ pf.arg.build = "debug"
    /\ pf.res.st = "panic"

\* The same address in a build without them: no block of its /22 is listed.
C38_EmptyRangeReached ==
    /\ ScanDone /\ pf.arg.addrs = << <<192, 168, 1, 10>>, <<10, 1, 255, 1>> >>
    /\ pf.arg.build = "release"
    /\ pf.res.st = "ok" /\ Len(pf.res.all_ips_to_scan) = 253
    /\ <<10, 1, 252, 22>> \in pf.res.scanned_subnets

\* ---- C39
\* parse_cidr accepted the input: it returned Ok with a list.
CidrAccepted == cd.res # Pending /\ cd.res.st = "ok"

\* For an input ip/prefix with prefix in 16..23: its network address and its
\* broadcast address.
NetworkThird(ip, prefix) == ip[3] - (ip[3] % Pow2(24 - prefix))
NetworkAddress(ip, prefix) == <<ip[1], ip[2], NetworkThird(ip, prefix), 0>>
BroadcastAddress(ip, prefix) ==
    <<ip[1], ip[2], NetworkThird(ip, prefix) + Pow2(24 - prefix) - 1, 255>>

\* The ascending list r starts one above the network address, which it
\* therefore does not hold.
ExcludesNetwork(r, ip, prefix) ==
    /\ Ipv4Addr(r.start) = [NetworkAddress(ip, prefix) EXCEPT ![4] = 1]
    /\ ~Less32(r.end, r.start)

\* C39: for every CIDR input that parse_cidr accepts, the returned list holds
\* at most 65534 host addresses, the maximum being reached at prefix /16, and
\* for prefixes 16 to 23 it excludes the network address.
C39_AtMost65534Hosts ==
    CidrAccepted =>
        /\ CidrLen(cd.res) \in 0..65534
        /\ cd.prefix = 16 => CidrLen(cd.res) = 65534
        /\ cd.prefix \in 16..23 => ExcludesNetwork(cd.res, cd.ip, cd.prefix)

\* What holds: but for the two /32 inputs on which the arithmetic overflows,
\* an accepted input yields at most 65535 addresses, 65535 at prefix /16; for
\* prefixes 16 to 23 the list runs from the address after the network address
\* up to and including the broadcast address. On the two /32 inputs a build
\* without overflow checks returns more than 65536 addresses.
C39_AtMost65535ButOverflow ==
    CidrAccepted =>
        IF <<cd.ip, cd.prefix>> \in CidrOverflowInputs
        THEN cd.build = "release" /\ CidrLen(cd.res) = -1
        ELSE /\ CidrLen(cd.res) \in 0..65535
             /\ cd.prefix = 16 => CidrLen(cd.res) = 65535
             /\ cd.prefix \in 16..23 =>
                   /\ ExcludesNetwork(cd.res, cd.ip, cd.prefix)
                   /\ Ipv4Addr(cd.res.end) = BroadcastAddress(cd.ip, cd.prefix)
                   /\ CidrLen(cd.res) = Pow2(32 - cd.prefix) - 1

\* parse_cidr("10.0.0.0/16") has returned 10.0.0.1 ..= 10.0.255.255, 65535
\* addresses.
C39_Witness ==
    /\ cd.input = CidrText(<<10, 0, 0, 0>>, 16) /\ CidrAccepted
    /\ Ipv4Addr(cd.res.start) = <<10, 0, 0, 1>>
    /\ Ipv4Addr(cd.res.end) = <<10, 0, 255, 255>>
    /\ CidrLen(cd.res) = 65535

\* parse_cidr("255.255.255.255/32") in a build without overflow checks has
\* returned the list 0.0.0.0 ..= 255.255.255.254.
C39_OverflowReached ==
    /\ cd.input = CidrText(<<255, 255, 255, 255>>, 32) /\ cd.build = "release"
    /\ CidrAccepted
    /\ Ipv4Addr(cd.res.start) = <<0, 0, 0, 0>>
    /\ Ipv4Addr(cd.res.end) = <<255, 255, 255, 254>>

\* parse_cidr("172.16.200.77/22") has returned 172.16.200.1 ..= 172.16.203.255.
C39_MidPrefixReached ==
    /\ cd.input = CidrText(<<172, 16, 200, 77>>, 22) /\ CidrAccepted
    /\ Ipv4Addr(cd.res.start) = <<172, 16, 200, 1>>
    /\ Ipv4Addr(cd.res.end) = <<172, 16, 203, 255>>

\* ---- C40
\* The unregister calls made on the daemon by the calls in the log.
RECURSIVE UnregisterCalls(_)
UnregisterCalls(log) ==
    IF log = <<>> THEN <<>> ELSE log[1].unregistered \o UnregisterCalls(Tail(log))

\* The advertisement was registered: an advertise call returned Ok.
WasRegistered(log) == \E i \in 1..Len(log) : log[i].op = "advertise" /\ log[i].ret = "Ok"

OwnerLeft == pf.fn \in {"run_with_adhoc", "run"} /\ pf.res.pc = "Left"

C40_StopThenDropReached ==
    /\ OwnerLeft /\ pf.fn = "run" /\ pf.res.out = "timeout"
    /\ Len(pf.res.a.log) = 3
    /\ pf.res.a.log[2].op = "stop" /\ Len(pf.res.a.log[2].unregistered) = 1
    /\ pf.res.a.log[3].op = "drop" /\ pf.res.a.log[3].unregistered = <<>>

\* run cancelled by Ctrl+C while it waits for a peer.
C40_CancelledReached ==
    /\ OwnerLeft /\ pf.fn = "run" /\ pf.res.out = "cancelled"
    /\ WasRegistered(pf.res.a.log) /\ Len(UnregisterCalls(pf.res.a.log)) = 1

\* listen --continuous ended by Ctrl+C.
C40_CtrlCReached ==
    /\ OwnerLeft /\ pf.fn = "run_with_adhoc" /\ pf.res.out = "ctrl_c"
    /\ Len(UnregisterCalls(pf.res.a.log)) = 1

====
